---- MODULE Spec2Model ----
(***************************************************************************)
(* A model of the buffered TS writer of tswrite.c: the circular buffer in  *)
(* shared memory, the parent process that fills it (tswrite_write,         *)
(* tswrite_close) and the child process that empties it                    *)
(* (tswrite_child_process / write_from_circular).                          *)
(*                                                                         *)
(* The two processes are interleaved at the places where the code sleeps:  *)
(* each iteration of a polling loop (wait_if_buffer_full,                  *)
(* wait_if_buffer_empty, wait_for_buffer_to_fill) is one step, and the     *)
(* child's pacing sleep lies between the step that takes an item and the   *)
(* step that sends it.                                                     *)
(*                                                                         *)
(* Time stamps are set as with -nopcrs (set_buffer_item_time_plain).        *)
(*                                                                         *)
(* uint32_t / int32_t values are kept as their 32-bit pattern read as a    *)
(* two's complement number (-2^31 .. 2^31-1), so that sums and differences *)
(* wrap exactly as the C code's do.                                        *)
(*                                                                         *)
(* Further parts: the direct (unbuffered) writer with its command input    *)
(* (write_file_data, write_socket_data, write_tcp_data, read_command,      *)
(* wait_for_command), the start-up (tswrite_process_args,                  *)
(* tswrite_start_buffering), and extract_packets of m2ts2ts.c with its     *)
(* doubly linked reorder buffer. Each part has its own variables, initial  *)
(* states and specification; the variables of the parts that are not       *)
(* running keep their initial values.                                      *)
(*                                                                         *)
(* Two functions are also followed on their own: write_socket_data byte by *)
(* byte, with sends that take a part of what they are given or find no     *)
(* buffer space, and set_buffer_item_time_pcr over a stream of items with  *)
(* PCRs (the buffered writer itself stamps its items as with -nopcrs).     *)
(***************************************************************************)
EXTENDS Integers, Sequences, FiniteSets, TLC

\* ------------------------------------------------------------ constants
TS_PACKET_SIZE == 188
TS_SYNC_BYTE == 71
EOF_BYTE == 1
ONE_MS_AS_NANOSECONDS == 1000000
CHILD_GIVE_UP_AFTER == 1000
PARENT_GIVE_UP_AFTER == 1000
DEFAULT_PARENT_WAIT == 50
DEFAULT_CHILD_WAIT == 10
DEFAULT_BYTE_RATE == 250000
DEFAULT_WAITFOR == 1000
DEFAULT_PRIME_SIZE == 10
DEFAULT_PRIME_SPEEDUP == 100
FirstPcr == 1000
DEFAULT_CIRCULAR_BUFFER_SIZE == 100
MAX_TV_NSEC == 999999999
LATE_RESET_LIMIT == 200000
MaxS32 == 2147483647
MinS32 == (-MaxS32) - 1

\* ------------------------------------------------------------ bounds
\* ring sizes 2..MaxSize, items of 1..MaxTSInItem packets, at most MaxPackets
\* calls of tswrite_write; a polling loop is followed for PollLimit iterations,
\* or, where the give-up limits matter, for <give-up limit> + ExtraPolls; a long
\* run makes LongRunPackets calls of tswrite_write
MaxSize == 4
MaxPackets == 4
MaxTSInItem == 2
PollLimit == 2
ExtraPolls == 2
LongRunPackets == 24
MaxDirect == 2
MaxCmds == 2
MaxSwitches == 2
MaxRecords == 4
MaxReorder == 2
MaxDataLen == 3
MaxNoBufs == 2
MaxPcrItems == 4

VARIABLES
  \* configuration (tswrite_start_buffering arguments and the globals)
  size, TS_in_item, maxnowait, waitfor, rate,
  global_parent_wait, global_child_wait,
  \* environment: the calls of tswrite_write the caller makes, the iterations a
  \* polling loop of the parent / the child is followed for, and what the wall
  \* clock may advance by between two readings
  max_calls, parent_poll_limit, child_poll_limit, clock_steps,
  \* global_perturb_range: the milliseconds of -perturb, 0 without it
  global_perturb_range,
  \* environment: the first bytes the caller's packets may have, and the results
  \* a write to the sink may have
  sync_bytes, write_results,
  \* circular buffer (shared memory)
  start, end, item,
  \* parent: buffered_TS_output, TS_writer and the statics of its functions
  ppc, ret, started, which, num_packets, count, last_time, full_count, arg,
  ring_unmapped,
  \* child: the statics of write_from_circular and of its wait functions
  cpc, child_status, starting, reset, last_packet_time, our_start,
  delta_start, sent_without_delay, fill_count, empty_count,
  this_packet_time, wf, now,
  \* history
  committed, sunk, released, polls_this_call, gave_up_after, nosleep_run,
  was_full, waited_fill, waited_empty, outwaited, close_log,
  \* TS_writer: the kind of sink, the command input and its flags, the position
  \* of the caller in a direct (unbuffered) write, the bytes of command input
  \* still to come, and the history of the direct writes and command reads;
  \* d_log has, for each write a direct call made, the packet's first byte, what
  \* the sink did and what tswrite_write returned
  how, command_socket, command, command_changed, atomic_command,
  dpc, dret, darg, cmd_pending, d_calls, d_written, d_reads, d_seen, d_log,
  \* history: "read" from the read of ']' or '[' on, "released" once
  \* atomic_command has been set and cleared again after it
  big_skip,
  \* the command line: the switches still to be looked at by
  \* tswrite_process_args, the TS_context it fills in and what it returned, what
  \* tswrite_start_buffering returned, the prime size of the buffered output,
  \* and how far the start-up has come
  argv, context, args_ret, sb_ret, prime_size, apc,
  \* m2ts2ts, extract_packets: the records still to be read and all the records
  \* of the input, the results fwrite may have, the packet buffers allocated,
  \* the locals of the function, the TS packets written, how far the function
  \* has come and what it returned
  m_input, m_all, m_write_results, m_nodes, reorder_buffer_size,
  reorder_buffer_head, reorder_buffer_tail, reorder_buffer_entries,
  packet_buffer_in_hand, m_output, mpc, m_ret,
  \* history: whether an fwrite of extract_packets has failed
  m_write_failed,
  \* write_socket_data at the level of bytes: the payload, the locals `left`
  \* and `start`, how far the function has come and what it returned; the
  \* bytes the successful calls of send were handed, and the calls of send
  \* that found no buffer space
  s_data, s_left, s_start, s_pc, s_ret, s_handed, s_nobufs,
  \* set_buffer_item_time_pcr: its static locals, the array writer->packet
  \* (entry i + 1 here is packet[i] there) and the time it gave the item; the
  \* stream it is fed from: the index of the next packet, the byte rate the
  \* PCRs of the stream stand for, the last PCR put into the stream and the
  \* index of its packet; the number of items stamped, and whether the part
  \* is running
  available_bytes, available_time, last_pcr_index, last_pcr, pcr_rate,
  last_timestamp, had_first_pcr, had_second_pcr, initial_prime_time,
  initial_prime_bytes, packet, item_time, pcr_count, stream_rate, stream_pcr,
  stream_pcr_index, items_stamped, pcr_pc,
  \* history: the pool (bytes, time) as it stood when the last step of the
  \* time stamp was computed from it
  pool_bytes, pool_time,
  \* writer->pcr_scale as a percentage; history: the entries of
  \* writer->packet that made up the item last stamped
  pcr_scale, stamped_item

cfgvars == <<size, TS_in_item, maxnowait, waitfor, rate,
             global_parent_wait, global_child_wait,
             max_calls, parent_poll_limit, child_poll_limit, clock_steps,
             sync_bytes, write_results, global_perturb_range>>
ringvars == <<start, end, item>>
parentvars == <<ppc, ret, started, which, num_packets, count, last_time,
                full_count, arg, ring_unmapped>>
childvars == <<cpc, child_status, starting, reset, last_packet_time, our_start,
               delta_start, sent_without_delay, fill_count, empty_count,
               this_packet_time, wf, now>>
histvars == <<committed, sunk, released, polls_this_call, gave_up_after,
              nosleep_run, was_full, waited_fill, waited_empty, outwaited,
              close_log>>
dirvars == <<how, command_socket, command, command_changed, atomic_command, dpc, dret, darg, cmd_pending, d_calls, d_written, d_reads, d_seen, d_log, big_skip>>
argvars == <<argv, context, args_ret, sb_ret, prime_size, apc>>
m2tsvars == <<m_input, m_all, m_write_results, m_nodes, reorder_buffer_size, reorder_buffer_head, reorder_buffer_tail, reorder_buffer_entries, packet_buffer_in_hand, m_output, mpc, m_ret, m_write_failed>>
sockvars == <<s_data, s_left, s_start, s_pc, s_ret, s_handed, s_nobufs>>
pcrvars == <<available_bytes, available_time, last_pcr_index, last_pcr, pcr_rate, last_timestamp, had_first_pcr, had_second_pcr, initial_prime_time, initial_prime_bytes, packet, item_time, pcr_count, stream_rate, stream_pcr, stream_pcr_index, items_stamped, pcr_pc, pool_bytes, pool_time, pcr_scale, stamped_item>>
vars == <<cfgvars, ringvars, parentvars, childvars, histvars, dirvars, argvars, m2tsvars, sockvars, pcrvars>>

\* ------------------------------------------------------------ 32-bit arithmetic
\* a + b modulo 2^32, on 32-bit patterns
AddU32(a, b) ==
  IF b >= 0
    THEN IF a > MaxS32 - b THEN (a + MinS32) + (b + MinS32) ELSE a + b
    ELSE IF a < MinS32 - b THEN (a - MinS32) + (b - MinS32) ELSE a + b

NegU32(a) == IF a = MinS32 THEN MinS32 ELSE -a

\* a - b modulo 2^32
SubU32(a, b) == AddU32(a, NegU32(b))

\* a <= b for the unsigned values the patterns stand for
LeqU32(a, b) ==
  IF (a >= 0) = (b >= 0) THEN a <= b ELSE a >= 0

Min(a, b) == IF a <= b THEN a ELSE b

\* ------------------------------------------------------------ circular buffer
\* a faulty advance that skips a slot
NextSlot_skip(i) == (i + 2) % size

NextSlot(i) == (i + 1) % size

\* a faulty emptiness test that forgets the gap between end and start
circular_buffer_empty_no_gap == start = end

circular_buffer_empty == start = (end + 1) % size

\* a faulty fullness test that forgets the wrap of the index
circular_buffer_full_no_wrap == end + 2 = start

circular_buffer_full == (end + 2) % size = start

\* the number of items between start and end, as the indexes give it
Outstanding == (end - start + 1 + size) % size

item_size == TS_in_item * TS_PACKET_SIZE

\* the null pointer; packet buffers are numbered from 1 in the order of their
\* allocation
NULL == 0

ZeroPacket == [byte0 |-> 0, body |-> 0]

ZeroItem ==
  [length |-> 0, time |-> 0, discontinuity |-> FALSE,
   data |-> [i \in 1..TS_in_item |-> ZeroPacket]]

\* the bytes data[0..length) of a slot: its first length/188 packets (an item of
\* length 1 is its first byte alone)
Payload(it) ==
  IF it.length < TS_PACKET_SIZE
    THEN <<[byte0 |-> it.data[1].byte0, body |-> 0]>>
    ELSE [i \in 1..(it.length \div TS_PACKET_SIZE) |-> it.data[i]]

\* ------------------------------------------------------------ polling
\* nanosleep refuses a tv_nsec outside 0..999999999 (EINVAL) and returns at once
nanosleep_EINVAL(nsec) == nsec < 0 \/ nsec > MAX_TV_NSEC

\* wait_if_buffer_full: "if (count > PARENT_GIVE_UP_AFTER) return 1"
parent_gives_up(c) == c > PARENT_GIVE_UP_AFTER

\* wait_if_buffer_empty, wait_for_buffer_to_fill: the body of
\* "if (count > CHILD_GIVE_UP_AFTER)" is commented out
\* the give-up test the comments were put around
child_gives_up_as_parent(c) == c > CHILD_GIVE_UP_AFTER

child_gives_up(c) == FALSE

\* count ++ of the static counters. Past its give-up limit the value of the
\* parent's counter no longer changes what the code does, and the value of the
\* child's counters never does: they are followed up to a limit and kept there.
BumpParentCount(c) == Min(c + 1, PARENT_GIVE_UP_AFTER + ExtraPolls)
BumpChildCount(c) == Min(c + 1, child_poll_limit)

\* ------------------------------------------------------------ timing (parent)
\* set_buffer_item_time_plain: (uint32_t)(num_bytes * 1000000.0 / rate)
elapsed_time_at(num_bytes, byterate) == (num_bytes * 1000000) \div byterate

elapsed_time(num_bytes) == elapsed_time_at(num_bytes, rate)

\* set_buffer_item_time_plain: last_time += elapsed_time
set_buffer_item_time_plain(np) ==
  AddU32(last_time, elapsed_time(np * TS_PACKET_SIZE))

CommittedItem(it, isEOF) ==
  [data |-> Payload(it), length |-> it.length, time |-> it.time, eof |-> isEOF]

\* a flush that sets the discontinuity flag of the item it commits
internal_flush_marks_discontinuity(it, np) ==
  LET stamped == [it EXCEPT !.time = set_buffer_item_time_plain(np),
                            !.discontinuity = TRUE]
      newend == which
  IN /\ item' = [item EXCEPT ![which] = stamped]
     /\ last_time' = stamped.time
     /\ end' = newend
     /\ which' = NextSlot(newend)
     /\ started' = FALSE
     /\ num_packets' = 0
     /\ committed' = Append(committed, CommittedItem(stamped, FALSE))
     /\ was_full' = (was_full \/ Len(committed) + 1 - released = size - 1)

\* internal_flush_buffered_TS_output, for the open item `it` with np packets
internal_flush_buffered_TS_output(it, np) ==
  LET stamped == [it EXCEPT !.time = set_buffer_item_time_plain(np)]
      newend == which
  IN /\ item' = [item EXCEPT ![which] = stamped]
     /\ last_time' = stamped.time
     /\ end' = newend
     /\ which' = NextSlot(newend)
     /\ started' = FALSE
     /\ num_packets' = 0
     /\ committed' = Append(committed, CommittedItem(stamped, FALSE))
     /\ was_full' = (was_full \/ Len(committed) + 1 - released = size - 1)

\* a write_to_buffered_TS_output that commits the item after every packet
StorePacket_commit_each(pkt, len0, np0) ==
  internal_flush_buffered_TS_output(
    [item[which] EXCEPT !.data[(len0 \div TS_PACKET_SIZE) + 1] = pkt,
                        !.length = len0 + TS_PACKET_SIZE], np0 + 1)

\* write_to_buffered_TS_output after its wait: copy the packet into the open item
\* (which holds len0 bytes and np0 packets) and flush the item when it is full
StorePacket(pkt, len0, np0) ==
  LET it1 == [item[which] EXCEPT !.data[(len0 \div TS_PACKET_SIZE) + 1] = pkt,
                                 !.length = len0 + TS_PACKET_SIZE]
  IN IF it1.length = item_size
       THEN internal_flush_buffered_TS_output(it1, np0 + 1)
       ELSE /\ item' = [item EXCEPT ![which] = it1]
            /\ started' = TRUE
            /\ num_packets' = np0 + 1
            /\ UNCHANGED <<end, which, last_time, committed, was_full>>

\* ------------------------------------------------------------ parent steps
\* tswrite_write -> write_to_buffered_TS_output, up to its wait
tswrite_write(b0) ==
  /\ ppc = "idle"
  /\ UNCHANGED <<outwaited, close_log, dirvars, argvars, m2tsvars, sockvars, pcrvars>>
  /\ count < max_calls
  /\ count' = count + 1
  /\ polls_this_call' = 0
  /\ IF started
       THEN /\ StorePacket([byte0 |-> b0, body |-> count + 1],
                           item[which].length, num_packets)
            /\ ret' = 0
            /\ UNCHANGED <<ppc, arg>>
       ELSE /\ ppc' = "write"
            /\ arg' = [byte0 |-> b0, body |-> count + 1]
            /\ UNCHANGED <<item, end, which, started, num_packets, last_time,
                           committed, was_full, ret>>
  /\ UNCHANGED <<cfgvars, start, full_count, ring_unmapped, childvars,
                 sunk, released, gave_up_after, nosleep_run, waited_fill,
                 waited_empty>>

\* one iteration of the loop of wait_if_buffer_full, the ring being full
wait_if_buffer_full ==
  /\ ppc \in {"write", "eof"}
  /\ UNCHANGED <<outwaited, dirvars, argvars, m2tsvars, sockvars, pcrvars>>
  /\ circular_buffer_full
  /\ full_count < parent_poll_limit \/ parent_gives_up(full_count)
  /\ full_count' = BumpParentCount(full_count)
  /\ polls_this_call' = polls_this_call + 1
  /\ IF nanosleep_EINVAL(global_parent_wait * ONE_MS_AS_NANOSECONDS)
        \/ parent_gives_up(full_count')
       THEN \* return 1: tswrite_write returns 1; tswrite_close frees the
            \* buffered output and returns 1
            /\ ret' = 1
            /\ gave_up_after' = polls_this_call + 1
            /\ ppc' = IF ppc = "write" THEN "idle" ELSE "closed"
            /\ ring_unmapped' = (ring_unmapped \/ ppc = "eof")
            /\ close_log' = IF ppc = "eof"
                               THEN close_log \o <<"ring_released", "sink_closed">>
                               ELSE close_log
       ELSE UNCHANGED <<ret, gave_up_after, ppc, ring_unmapped, close_log>>
  /\ UNCHANGED <<cfgvars, ringvars, started, which, num_packets, count,
                 last_time, arg, childvars, committed, sunk, released,
                 nosleep_run, was_full, waited_fill, waited_empty>>

\* write_to_buffered_TS_output, from the return of its wait on
write_to_buffered_TS_output ==
  /\ ppc = "write"
  /\ UNCHANGED <<outwaited, close_log, dirvars, argvars, m2tsvars, sockvars, pcrvars>>
  /\ ~circular_buffer_full
  /\ full_count' = 0
  /\ StorePacket(arg, 0, 0)
  /\ ppc' = "idle"
  /\ ret' = 0
  /\ UNCHANGED <<cfgvars, start, count, arg, ring_unmapped, childvars,
                 sunk, released, polls_this_call, gave_up_after, nosleep_run,
                 waited_fill, waited_empty>>

\* tswrite_close -> tswrite_close_child -> write_EOF_to_buffered_TS_output, up to
\* the wait of add_eof_entry
tswrite_close ==
  /\ ppc = "idle"
  /\ UNCHANGED <<outwaited, dirvars, argvars, m2tsvars, sockvars, pcrvars>>
  /\ close_log' = IF started /\ item[which].length > 0
                     THEN Append(close_log, "flush")
                     ELSE close_log
  /\ polls_this_call' = 0
  /\ ppc' = "eof"
  /\ IF started /\ item[which].length > 0
       THEN internal_flush_buffered_TS_output(item[which], num_packets)
       ELSE UNCHANGED <<item, end, which, started, num_packets, last_time,
                        committed, was_full>>
  /\ UNCHANGED <<cfgvars, start, ret, count, full_count, arg, ring_unmapped,
                 childvars, sunk, released, gave_up_after, nosleep_run,
                 waited_fill, waited_empty>>

\* add_eof_entry, from the return of its wait on
add_eof_entry ==
  /\ ppc = "eof"
  /\ UNCHANGED <<outwaited, dirvars, argvars, m2tsvars, sockvars, pcrvars>>
  /\ close_log' = Append(close_log, "eof")
  /\ ~circular_buffer_full
  /\ full_count' = 0
  /\ LET data_pos == (end + 1) % size
         stamp == set_buffer_item_time_plain(num_packets)
         timed == [item EXCEPT ![which].time = stamp]
         marked == [timed EXCEPT ![data_pos].data[1].byte0 = EOF_BYTE,
                                 ![data_pos].length = 1]
     IN /\ item' = marked
        /\ last_time' = stamp
        /\ end' = data_pos
        /\ committed' = Append(committed, CommittedItem(marked[data_pos], TRUE))
        /\ was_full' = (was_full \/ Len(committed) + 1 - released = size - 1)
  /\ ppc' = "waitpid"
  /\ UNCHANGED <<cfgvars, start, ret, started, which, num_packets, count, arg,
                 ring_unmapped, childvars, sunk, released, polls_this_call,
                 gave_up_after, nosleep_run, waited_fill, waited_empty>>

\* wait_for_child_to_exit (waitpid returns once the child has exited), then, in
\* tswrite_close_child, free_buffered_TS_output (which unmaps the ring), then, in
\* tswrite_close, tswrite_close_file
wait_for_child_to_exit ==
  /\ ppc = "waitpid"
  /\ cpc = "exited"
  /\ ppc' = "closed"
  /\ ret' = 0
  /\ ring_unmapped' = TRUE
  /\ close_log' = close_log \o <<"child_exited", "ring_released", "sink_closed">>
  /\ UNCHANGED <<cfgvars, ringvars, started, which, num_packets, count,
                 last_time, full_count, arg, childvars, committed, sunk,
                 released, polls_this_call, gave_up_after, nosleep_run,
                 was_full, waited_fill, waited_empty, outwaited, dirvars, argvars, m2tsvars, sockvars, pcrvars>>

ParentNext ==
  \/ \E b0 \in sync_bytes : tswrite_write(b0)
  \/ wait_if_buffer_full
  \/ write_to_buffered_TS_output
  \/ tswrite_close
  \/ add_eof_entry
  \/ wait_for_child_to_exit

\* ------------------------------------------------------------ child: sink
\* a write_socket_data that does not look at the first byte of the payload
write_socket_data_any_byte(first_byte, res) ==
  IF res = "ok" THEN <<0, TRUE>> ELSE <<1, FALSE>>

\* write_socket_data for a payload with the given first byte, `res` being what
\* send does with it: <<value returned, whether the payload went to the sink>>
write_socket_data(first_byte, res) ==
  IF first_byte # TS_SYNC_BYTE THEN <<0, FALSE>>
  ELSE IF res = "ok" THEN <<0, TRUE>>
  ELSE <<1, FALSE>>

\* a received_EOF that takes any item that holds something for the EOF entry
received_EOF_any_item(it) == it.length >= 1

\* ------------------------------------------------------------ child: pacing
\* received_EOF: an item of length 1 whose first byte is 1
received_EOF(it) == it.length = 1 /\ it.data[1].byte0 = EOF_BYTE

Dbl(a) == AddU32(a, a)

\* microseconds * 1000 modulo 2^32 (x*1000 = x*1024 - x*16 - x*8)
Times1000U32(us) ==
  LET x8 == Dbl(Dbl(Dbl(us)))
      x16 == Dbl(x8)
      x1024 == Dbl(Dbl(Dbl(Dbl(Dbl(Dbl(x16))))))
  IN SubU32(SubU32(x1024, x16), x8)

\* wait_microseconds(us), us > 0: the microseconds it can sleep for.
\* "uint32_t nanoseconds = microseconds * 1000" is an int product: beyond
\* 2147483 microseconds it overflows (undefined; the wrapped value is one
\* outcome, a refused request another). nanosleep refuses tv_nsec > 999999999
\* and the code does not look at that error.
wait_microseconds(us) ==
  IF us <= MAX_TV_NSEC \div 1000
    THEN {us}
    ELSE IF us <= MaxS32 \div 1000
      THEN {0}
      ELSE LET w == Times1000U32(us)
           IN {0} \cup (IF w >= 0 /\ w <= MAX_TV_NSEC THEN {w \div 1000} ELSE {})

\* perturb_time_by: (unsigned)(double_range * rand() / (RAND_MAX + 1.0)) -
\* range with double_range = (range + 1) * 2, in microseconds; 0 where it is
\* not called
perturb_time_by ==
  IF global_perturb_range = 0 THEN {0}
  ELSE {1000 * (r - global_perturb_range) : r \in 0..(2 * global_perturb_range + 1)}

\* write_from_circular: the wait an item's time stamp asks for, before the
\* drift policy: <<waitfor, our_start, delta_start>>
timeline(t_pkt, t_now, perturb) ==
  IF reset \/ item[start].discontinuity
    THEN <<0, t_now, t_pkt>>
    ELSE LET our_time_now == (t_now - our_start) + perturb
             adjusted_now == AddU32(our_time_now, delta_start)
         IN <<SubU32(t_pkt, adjusted_now), our_start, delta_start>>

\* a drift policy that takes the reset only when the item is late by more than
\* the limit, not when it is late by exactly the limit
drift_policy_late_edge(w) ==
  IF w > 0 THEN <<w, FALSE>>
  ELSE IF w >= -LATE_RESET_LIMIT THEN <<0, FALSE>>
  ELSE IF global_perturb_range = 0 THEN <<0, TRUE>>
  ELSE <<w, FALSE>>

\* write_from_circular: the drift policy: <<waitfor, reset>>
drift_policy(w) ==
  IF w > 0 THEN <<w, FALSE>>
  ELSE IF w > -LATE_RESET_LIMIT THEN <<0, FALSE>>
  ELSE IF global_perturb_range = 0 THEN <<0, TRUE>>
  ELSE <<w, FALSE>>

\* write_from_circular: the burst guard: <<waitfor, sent_without_delay>>
burst_guard(w) ==
  IF w = 0 /\ maxnowait # -1
    THEN IF sent_without_delay < maxnowait
           THEN <<w, sent_without_delay + 1>>
           ELSE <<waitfor, sent_without_delay>>
    ELSE <<w, sent_without_delay>>

\* ------------------------------------------------------------ child steps
\* write_from_circular: the first call waits for the ring to fill
\* (wait_for_buffer_to_fill), every later one while it is empty
\* (wait_if_buffer_empty)
\* a faulty wait that never waits for the ring to fill
child_wait_over_eager == ~circular_buffer_empty

child_wait_over ==
  IF starting THEN circular_buffer_full ELSE ~circular_buffer_empty

ChildExit(status) ==
  /\ cpc' = "exited"
  /\ child_status' = status

\* one iteration of the loop of wait_for_buffer_to_fill, the ring not being full
wait_for_buffer_to_fill ==
  /\ cpc = "run"
  /\ UNCHANGED <<outwaited, close_log, dirvars, argvars, m2tsvars, sockvars, pcrvars>>
  /\ starting
  /\ ~circular_buffer_full
  /\ fill_count' = BumpChildCount(fill_count)
  /\ waited_fill' = TRUE
  /\ IF nanosleep_EINVAL(global_child_wait * ONE_MS_AS_NANOSECONDS)
        \/ child_gives_up(fill_count')
       THEN ChildExit(1)
       ELSE UNCHANGED <<cpc, child_status>>
  /\ UNCHANGED <<cfgvars, ringvars, parentvars, starting, reset,
                 last_packet_time, our_start, delta_start, sent_without_delay,
                 empty_count, this_packet_time, wf, now, committed, sunk,
                 released, polls_this_call, gave_up_after, nosleep_run,
                 was_full, waited_empty>>

\* one iteration of the loop of wait_if_buffer_empty, the ring being empty
wait_if_buffer_empty ==
  /\ cpc = "run"
  /\ UNCHANGED <<outwaited, close_log, dirvars, argvars, m2tsvars, sockvars, pcrvars>>
  /\ ~starting
  /\ circular_buffer_empty
  /\ empty_count' = BumpChildCount(empty_count)
  /\ waited_empty' = TRUE
  /\ IF nanosleep_EINVAL(global_child_wait * ONE_MS_AS_NANOSECONDS)
        \/ child_gives_up(empty_count')
       THEN ChildExit(1)
       ELSE UNCHANGED <<cpc, child_status>>
  /\ UNCHANGED <<cfgvars, ringvars, parentvars, starting, reset,
                 last_packet_time, our_start, delta_start, sent_without_delay,
                 fill_count, this_packet_time, wf, now, committed, sunk,
                 released, polls_this_call, gave_up_after, nosleep_run,
                 was_full, waited_fill>>

\* write_from_circular, from the return of its wait up to its pacing sleep; the
\* wall clock has advanced by d since it was last read
write_from_circular(d) ==
  /\ cpc = "run"
  /\ child_wait_over
  /\ starting' = FALSE
  /\ outwaited' = (outwaited
                   \/ (IF starting THEN fill_count ELSE empty_count)
                        > CHILD_GIVE_UP_AFTER)
  /\ fill_count' = IF starting THEN 0 ELSE fill_count
  /\ empty_count' = IF starting THEN empty_count ELSE 0
  /\ IF received_EOF(item[start])
       THEN /\ start' = NextSlot(start)
            /\ released' = released + 1
            /\ ChildExit(0)
            /\ UNCHANGED <<reset, our_start, delta_start, sent_without_delay,
                           this_packet_time, wf, now>>
       ELSE \E perturb \in perturb_time_by :
            LET t_pkt == item[start].time
                tl == timeline(t_pkt, now + d, perturb)
                dp == drift_policy(tl[1])
                bg == burst_guard(dp[1])
            IN /\ this_packet_time' = t_pkt
               /\ now' = now + d
               /\ our_start' = tl[2]
               /\ delta_start' = tl[3]
               /\ reset' = dp[2]
               /\ wf' = bg[1]
               /\ sent_without_delay' = bg[2]
               /\ cpc' = "send"
               /\ UNCHANGED <<start, released, child_status>>
  /\ UNCHANGED <<cfgvars, end, item, parentvars, last_packet_time, committed,
                 sunk, polls_this_call, gave_up_after, nosleep_run, was_full,
                 waited_fill, waited_empty, close_log, dirvars, argvars, m2tsvars, sockvars, pcrvars>>

\* write_from_circular, from its pacing sleep on: wait_microseconds, then
\* write_circular_data; `slept` is what the sleep lasted and `res` what send
\* does. The value write_socket_data returns is not looked at.
write_circular_data(slept, res) ==
  /\ cpc = "send"
  /\ UNCHANGED <<outwaited, close_log, dirvars, argvars, m2tsvars, sockvars, pcrvars>>
  /\ sent_without_delay' = IF wf > 0 THEN 0 ELSE sent_without_delay
  /\ now' = now + slept
  /\ nosleep_run' = IF slept > 0 THEN 0 ELSE nosleep_run + 1
  /\ sunk' = Append(sunk,
       [data |-> Payload(item[start]),
        length |-> item[start].length,
        sent |-> write_socket_data(item[start].data[1].byte0, res)[2],
        res |-> res])
  /\ item' = [item EXCEPT ![start].data[1].byte0 = 0]
  /\ start' = NextSlot(start)
  /\ released' = released + 1
  /\ last_packet_time' = this_packet_time
  /\ cpc' = "run"
  /\ UNCHANGED <<cfgvars, end, parentvars, child_status, starting, reset,
                 our_start, delta_start, fill_count, empty_count,
                 this_packet_time, wf, committed, polls_this_call,
                 gave_up_after, was_full, waited_fill, waited_empty>>

ChildNext ==
  \/ wait_for_buffer_to_fill
  \/ wait_if_buffer_empty
  \/ \E d \in clock_steps : write_from_circular(d)
  \/ \E slept \in (IF wf > 0 THEN wait_microseconds(wf) ELSE {0}) :
       \E res \in write_results : write_circular_data(slept, res)

\* ------------------------------------------------------------ command input
\* what one read of the command socket gives: a byte, end of file, an error
ReadByte(c) == [length |-> 1, thing |-> c]
ReadEOF == [length |-> 0, thing |-> ""]
ReadError == [length |-> -1, thing |-> ""]

\* the sequences of up to n reads over `reads`
RECURSIVE SeqsUpTo(_, _)
SeqsUpTo(reads, n) ==
  IF n = 0 THEN {<<>>}
  ELSE LET shorter == SeqsUpTo(reads, n - 1)
       IN shorter \cup {Append(q, r) : q \in shorter, r \in reads}

\* the bytes read_command has a case for, except newline
CommandChars ==
  {"q", "n", "p", "f", "F", "r", "R", ">", "<", "]", "[",
   "0", "1", "2", "3", "4", "5", "6", "7", "8", "9"}

\* read_command with the switch of ']' and '[' the other way round
CommandTable_swapped ==
  [c \in CommandChars |->
     CASE c = "q" -> "COMMAND_QUIT"
       [] c = "n" -> "COMMAND_NORMAL"
       [] c = "p" -> "COMMAND_PAUSE"
       [] c = "f" -> "COMMAND_FAST"
       [] c = "F" -> "COMMAND_FAST_FAST"
       [] c = "r" -> "COMMAND_REVERSE"
       [] c = "R" -> "COMMAND_FAST_REVERSE"
       [] c = ">" -> "COMMAND_SKIP_FORWARD"
       [] c = "<" -> "COMMAND_SKIP_BACKWARD"
       [] c = "]" -> "COMMAND_SKIP_BACKWARD_LOTS"
       [] c = "[" -> "COMMAND_SKIP_FORWARD_LOTS"
       [] OTHER -> "COMMAND_SELECT_FILE_0"]

\* the switch of read_command
CommandTable ==
  [c \in CommandChars |->
     CASE c = "q" -> "COMMAND_QUIT"
       [] c = "n" -> "COMMAND_NORMAL"
       [] c = "p" -> "COMMAND_PAUSE"
       [] c = "f" -> "COMMAND_FAST"
       [] c = "F" -> "COMMAND_FAST_FAST"
       [] c = "r" -> "COMMAND_REVERSE"
       [] c = "R" -> "COMMAND_FAST_REVERSE"
       [] c = ">" -> "COMMAND_SKIP_FORWARD"
       [] c = "<" -> "COMMAND_SKIP_BACKWARD"
       [] c = "]" -> "COMMAND_SKIP_FORWARD_LOTS"
       [] c = "[" -> "COMMAND_SKIP_BACKWARD_LOTS"
       [] c = "0" -> "COMMAND_SELECT_FILE_0"
       [] c = "1" -> "COMMAND_SELECT_FILE_1"
       [] c = "2" -> "COMMAND_SELECT_FILE_2"
       [] c = "3" -> "COMMAND_SELECT_FILE_3"
       [] c = "4" -> "COMMAND_SELECT_FILE_4"
       [] c = "5" -> "COMMAND_SELECT_FILE_5"
       [] c = "6" -> "COMMAND_SELECT_FILE_6"
       [] c = "7" -> "COMMAND_SELECT_FILE_7"
       [] c = "8" -> "COMMAND_SELECT_FILE_8"
       [] c = "9" -> "COMMAND_SELECT_FILE_9"]

\* read_command, `rd` being what read gives: its length (1, 0 at end of file,
\* -1 on error) and the byte read: <<value returned, command, command_changed>>
read_command(rd, cmd, changed) ==
  IF rd.length = 0 THEN <<0, "COMMAND_QUIT", TRUE>>
  ELSE IF rd.length = -1 THEN <<0, "COMMAND_QUIT", TRUE>>
  ELSE IF rd.thing \in CommandChars THEN <<0, CommandTable[rd.thing], TRUE>>
  ELSE <<0, cmd, changed>>

\* what is left to read after one read: a byte is consumed, end of file and a
\* broken socket stay
AfterRead(pending) ==
  IF Head(pending).length = 1 THEN Tail(pending) ELSE pending

\* the commands of ']' and '['
BigSkips == {"COMMAND_SKIP_FORWARD_LOTS", "COMMAND_SKIP_BACKWARD_LOTS"}

\* the step of a loop around select that reads a command
ReadCommandStep ==
  LET rc == read_command(Head(cmd_pending), command, command_changed)
  IN /\ command' = rc[2]
     /\ command_changed' = rc[3]
     /\ cmd_pending' = AfterRead(cmd_pending)
     /\ d_reads' = d_reads + 1
     /\ big_skip' = IF Head(cmd_pending).length = 1 /\ Head(cmd_pending).thing \in {"]", "["}
                       THEN "read" ELSE big_skip

\* whether that read_command returns an error to the loop
ReadCommandErr ==
  read_command(Head(cmd_pending), command, command_changed)[1] # 0

\* ------------------------------------------------------------ direct output
\* write_file_data taken to return 0 whatever fwrite does
write_file_data_unchecked(res) == <<0, res = "ok">>

\* write_file_data: fwrite writes all the bytes or the call fails:
\* <<value returned, whether the packet went to the sink>>
write_file_data(res) == IF res = "ok" THEN <<0, TRUE>> ELSE <<1, FALSE>>

\* the end of a direct tswrite_write whose write function returned w[1]
DirectDone(pkt, w, res) ==
  /\ d_written' = IF w[2] THEN Append(d_written, pkt) ELSE d_written
  /\ d_log' = Append(d_log, [byte0 |-> pkt.byte0, res |-> res,
                             ret |-> IF w[1] # 0 THEN 1 ELSE 0])
  /\ dret' = IF w[1] # 0 THEN 1 ELSE 0
  /\ count' = IF w[1] # 0 THEN count ELSE count + 1
  /\ dpc' = "idle"

\* tswrite_write with tswriter->writer == NULL
tswrite_write_direct(b0, res) ==
  /\ dpc = "idle"
  /\ UNCHANGED big_skip
  /\ d_calls < max_calls
  /\ d_calls' = d_calls + 1
  /\ LET pkt == [byte0 |-> b0, body |-> d_calls + 1]
     IN CASE how \in {"stdout", "file"} ->
               /\ DirectDone(pkt, write_file_data(res), res)
               /\ UNCHANGED darg
          [] how = "udp" \/ (how = "tcp" /\ command_socket = -1) ->
               /\ DirectDone(pkt, write_socket_data(b0, res), res)
               /\ UNCHANGED darg
          [] OTHER ->
               /\ dpc' = "tcp"
               /\ darg' = pkt
               /\ UNCHANGED <<d_written, d_log, dret, count>>
  /\ UNCHANGED <<cfgvars, argvars, m2tsvars, sockvars, pcrvars, ringvars, ppc, ret, started, which, num_packets,
                 last_time, full_count, arg, ring_unmapped, childvars, histvars,
                 how, command_socket, command, command_changed, atomic_command,
                 cmd_pending, d_reads, d_seen>>

\* the command socket put into the read set whatever command_changed is
command_sought_always == TRUE

\* write_tcp_data puts the command socket into the read set of select only if
\* the last command is not still outstanding
command_sought == ~command_changed

\* one round of the loop of write_tcp_data with command input: select reports
\* the command socket readable (cmd_ready: only asked for when no command is
\* outstanding) and the output socket writable (out_ready)
write_tcp_data(cmd_ready, out_ready, res) ==
  /\ dpc = "tcp"
  /\ cmd_ready \/ out_ready
  /\ cmd_ready => (command_sought /\ cmd_pending # <<>>)
  /\ IF cmd_ready
       THEN ReadCommandStep
       ELSE UNCHANGED <<command, command_changed, cmd_pending, d_reads, big_skip>>
  /\ IF cmd_ready /\ ReadCommandErr
       THEN /\ dret' = 1
            /\ dpc' = "idle"
            /\ UNCHANGED <<d_written, d_log, count>>
       ELSE IF out_ready
         THEN DirectDone(darg, write_socket_data(darg.byte0, res), res)
         ELSE UNCHANGED <<d_written, d_log, dret, count, dpc>>
  /\ UNCHANGED <<cfgvars, argvars, m2tsvars, sockvars, pcrvars, ringvars, ppc, ret, started, which, num_packets,
                 last_time, full_count, arg, ring_unmapped, childvars, histvars,
                 how, command_socket, atomic_command, darg, d_calls, d_seen>>

\* select fails in write_tcp_data or in wait_for_command
select_error ==
  /\ dpc \in {"tcp", "wait"}
  /\ UNCHANGED big_skip
  /\ "fail" \in write_results
  /\ dret' = 1
  /\ dpc' = "idle"
  /\ UNCHANGED <<cfgvars, argvars, m2tsvars, sockvars, pcrvars, ringvars, parentvars, childvars, histvars,
                 how, command_socket, command, command_changed, atomic_command,
                 darg, cmd_pending, d_calls, d_written, d_reads, d_seen, d_log>>

\* wait_for_command up to its loop: it returns at once without a command
\* socket or with a command outstanding
wait_for_command ==
  /\ dpc = "idle"
  /\ UNCHANGED big_skip
  /\ d_calls < max_calls
  /\ d_calls' = d_calls + 1
  /\ IF command_socket = -1
       THEN dret' = 1 /\ dpc' = "idle"
       ELSE IF command_changed
         THEN dret' = 0 /\ dpc' = "idle"
         ELSE dpc' = "wait" /\ UNCHANGED dret
  /\ UNCHANGED <<cfgvars, argvars, m2tsvars, sockvars, pcrvars, ringvars, parentvars, childvars, histvars,
                 how, command_socket, command, command_changed, atomic_command,
                 darg, cmd_pending, d_written, d_reads, d_seen, d_log>>

\* one round of the loop of wait_for_command: select reports the command socket
\* readable, the command is read and the loop condition looked at again
wait_for_command_read ==
  /\ dpc = "wait"
  /\ ~command_changed
  /\ cmd_pending # <<>>
  /\ ReadCommandStep
  /\ IF ReadCommandErr
       THEN dret' = 1 /\ dpc' = "idle"
       ELSE IF command_changed'
         THEN dret' = 0 /\ dpc' = "idle"
         ELSE UNCHANGED <<dret, dpc>>
  /\ UNCHANGED <<cfgvars, argvars, m2tsvars, sockvars, pcrvars, ringvars, parentvars, childvars, histvars,
                 how, command_socket, atomic_command, darg, d_calls,
                 d_written, d_seen, d_log>>

tswrite_set_command_atomic(atomic) ==
  /\ dpc = "idle"
  /\ atomic_command' = atomic
  /\ big_skip' = IF big_skip = "read" /\ atomic_command /\ ~atomic THEN "released" ELSE big_skip
  /\ UNCHANGED <<cfgvars, argvars, m2tsvars, sockvars, pcrvars, ringvars, parentvars, childvars, histvars,
                 how, command_socket, command, command_changed, dpc, dret, darg,
                 cmd_pending, d_calls, d_written, d_reads, d_seen, d_log>>

\* tswrite_command_changed taken to return command_changed in the middle of an
\* atomic command as well
command_changed_seen_in_atomic(sock, atomic, changed) ==
  IF sock = -1 THEN FALSE ELSE changed

\* the value tswrite_command_changed returns
command_changed_seen(sock, atomic, changed) ==
  IF sock = -1 THEN FALSE
  ELSE IF atomic THEN FALSE
  ELSE changed

\* tswrite_command_changed; d_seen is the value returned
tswrite_command_changed ==
  /\ dpc = "idle"
  /\ UNCHANGED big_skip
  /\ d_seen' = command_changed_seen(command_socket, atomic_command, command_changed)
  /\ UNCHANGED <<cfgvars, argvars, m2tsvars, sockvars, pcrvars, ringvars, parentvars, childvars, histvars,
                 how, command_socket, command, command_changed, atomic_command,
                 dpc, dret, darg, cmd_pending, d_calls, d_written, d_reads, d_log>>

\* the caller takes the command up and unsets command_changed ("it is up to
\* someone else to unset command_changed")
acknowledge_command ==
  /\ dpc = "idle"
  /\ UNCHANGED big_skip
  /\ command_changed
  /\ command_changed' = FALSE
  /\ UNCHANGED <<cfgvars, argvars, m2tsvars, sockvars, pcrvars, ringvars, parentvars, childvars, histvars,
                 how, command_socket, command, atomic_command, dpc, dret, darg,
                 cmd_pending, d_calls, d_written, d_reads, d_seen, d_log>>

\* tswrite_close with tswriter->writer == NULL: tswrite_close_file
tswrite_close_direct ==
  /\ dpc = "idle"
  /\ UNCHANGED big_skip
  /\ dpc' = "closed"
  /\ dret' = 0
  /\ close_log' = Append(close_log, "sink_closed")
  /\ UNCHANGED <<cfgvars, argvars, m2tsvars, sockvars, pcrvars, ringvars, parentvars, childvars, committed, sunk,
                 released, polls_this_call, gave_up_after, nosleep_run, was_full,
                 waited_fill, waited_empty, outwaited,
                 how, command_socket, command, command_changed, atomic_command,
                 darg, cmd_pending, d_calls, d_written, d_reads, d_seen, d_log>>

DirectNext ==
  \/ \E b0 \in sync_bytes, res \in write_results : tswrite_write_direct(b0, res)
  \/ \E cmd_ready, out_ready \in BOOLEAN, res \in write_results :
       write_tcp_data(cmd_ready, out_ready, res)
  \/ select_error
  \/ wait_for_command
  \/ wait_for_command_read
  \/ \E atomic \in BOOLEAN : tswrite_set_command_atomic(atomic)
  \/ tswrite_command_changed
  \/ acknowledge_command
  \/ tswrite_close_direct

\* ------------------------------------------------------------ start-up
\* the values tswrite_process_args puts into the context before it looks at the
\* command line
DefaultContext ==
  [circ_buf_size |-> DEFAULT_CIRCULAR_BUFFER_SIZE, prime_size |-> DEFAULT_PRIME_SIZE]

\* int_value for a string that is the decimal number val: <<value returned,
\* value read>>
int_value(val, positive) ==
  IF positive /\ val < 0 THEN <<1, 0>> ELSE <<0, val>>

\* the loop of tswrite_process_args over the switches -prime and -buffer:
\* <<value returned, context>>
RECURSIVE process_args_loop(_, _)
process_args_loop(args, ctx) ==
  IF args = <<>> THEN <<0, ctx>>
  ELSE LET switch == Head(args)[1]
           read == int_value(Head(args)[2], TRUE)
       IN IF read[1] # 0 THEN <<1, ctx>>
          ELSE IF switch = "-prime"
            THEN LET c == [ctx EXCEPT !.prime_size = read[2]]
                 IN IF c.prime_size < 1 THEN <<1, c>>
                    ELSE process_args_loop(Tail(args), c)
            ELSE LET c == [ctx EXCEPT !.circ_buf_size = read[2]]
                 IN IF c.circ_buf_size < 1 THEN <<1, c>>
                    ELSE process_args_loop(Tail(args), c)

tswrite_process_args ==
  /\ apc = "args"
  /\ LET done == process_args_loop(argv, DefaultContext)
     IN /\ args_ret' = done[1]
        /\ context' = done[2]
  /\ apc' = "parsed"
  /\ UNCHANGED <<cfgvars, ringvars, parentvars, childvars, histvars, dirvars, m2tsvars, sockvars, pcrvars,
                 argv, sb_ret, prime_size>>

\* tswrite_start_buffering: build_buffered_TS_output, then start_child. With
\* circ_buf_size = 0 the remainder (circular->end + 1) % circular->size is
\* undefined: the process is killed, or goes on in a way that is not followed
StartBuffering(circ_buf_size, given_prime_size) ==
  IF how # "udp"
    THEN /\ sb_ret' = 1
         /\ apc' = "rejected"
         /\ UNCHANGED <<size, item, which, prime_size, ppc, cpc>>
    ELSE IF circ_buf_size = 0
      THEN /\ apc' \in {"killed", "undefined"}
           /\ ppc' = "undefined"
           /\ cpc' = IF apc' = "killed" THEN "nochild" ELSE "undefined"
           /\ size' = circ_buf_size
           /\ prime_size' = given_prime_size
           /\ UNCHANGED <<item, which, sb_ret>>
      ELSE /\ size' = circ_buf_size
           /\ item' = [i \in 0..(circ_buf_size - 1) |-> ZeroItem]
           /\ which' = (end + 1) % circ_buf_size
           /\ prime_size' = given_prime_size
           /\ ppc' = "idle"
           /\ cpc' = "run"
           /\ sb_ret' = 0
           /\ apc' = "started"

\* tswrite_start_buffering called by a program with its own values
tswrite_start_buffering(circ_buf_size, given_prime_size) ==
  /\ apc = "args"
  /\ StartBuffering(circ_buf_size, given_prime_size)
  /\ UNCHANGED <<TS_in_item, maxnowait, waitfor, rate, global_parent_wait,
                 global_child_wait, max_calls, parent_poll_limit,
                 child_poll_limit, clock_steps, sync_bytes, write_results, global_perturb_range,
                 start, end, ret, started, num_packets, count, last_time,
                 full_count, arg, ring_unmapped, child_status, starting, reset,
                 last_packet_time, our_start, delta_start, sent_without_delay,
                 fill_count, empty_count, this_packet_time, wf, now, histvars,
                 dirvars, m2tsvars, sockvars, pcrvars, argv, context, args_ret>>

\* tswrite_start_buffering_from_context, once tswrite_process_args has
\* returned 0
tswrite_start_buffering_from_context ==
  /\ apc = "parsed"
  /\ args_ret = 0
  /\ StartBuffering(context.circ_buf_size, context.prime_size)
  /\ UNCHANGED <<TS_in_item, maxnowait, waitfor, rate, global_parent_wait,
                 global_child_wait, max_calls, parent_poll_limit,
                 child_poll_limit, clock_steps, sync_bytes, write_results, global_perturb_range,
                 start, end, ret, started, num_packets, count, last_time,
                 full_count, arg, ring_unmapped, child_status, starting, reset,
                 last_packet_time, our_start, delta_start, sent_without_delay,
                 fill_count, empty_count, this_packet_time, wf, now, histvars,
                 dirvars, m2tsvars, sockvars, pcrvars, argv, context, args_ret>>

\* the values a program gives for the ring size and the prime size
SizesGiven == {0, 2}
PrimesGiven == {0, 1}

ArgsNext ==
  \/ tswrite_process_args
  \/ tswrite_start_buffering_from_context
  \/ \E circ_buf_size \in SizesGiven, given_prime_size \in PrimesGiven :
       tswrite_start_buffering(circ_buf_size, given_prime_size)

\* ------------------------------------------------------------ m2ts2ts
\* parse_m2ts_packet: the time stamp is the first four bytes, most significant
\* first; ts_packet points behind them
parse_m2ts_packet(m2ts_packet) ==
  [next |-> NULL, prev |-> NULL,
   timestamp |-> ((m2ts_packet.stamp[1] * 256 + m2ts_packet.stamp[2]) * 256
                    + m2ts_packet.stamp[3]) * 256 + m2ts_packet.stamp[4],
   ts_packet |-> m2ts_packet.ts]

\* the search from the tail that goes past records of the same time stamp too
RECURSIVE insert_after_past_equal(_, _, _)
insert_after_past_equal(nodes, p, timestamp) ==
  IF p # NULL /\ nodes[p].timestamp >= timestamp
    THEN insert_after_past_equal(nodes, nodes[p].prev, timestamp)
    ELSE p

\* extract_packets, the search from the tail: the entry the new one goes behind,
\* NULL if it goes to the head
RECURSIVE insert_after(_, _, _)
insert_after(nodes, p, timestamp) ==
  IF p # NULL /\ nodes[p].timestamp > timestamp
    THEN insert_after(nodes, nodes[p].prev, timestamp)
    ELSE p

\* extract_packets, the insertion of packet_buffer into the reorder buffer:
\* <<packet buffers, head, tail>>
insert_packet(nodes, head, tail, packet_buffer) ==
  LET p == insert_after(nodes, tail, nodes[packet_buffer].timestamp)
  IN IF p = NULL
       THEN LET linked == [nodes EXCEPT ![packet_buffer].next = head,
                                        ![packet_buffer].prev = NULL]
            IN IF tail = NULL
                 THEN <<linked, packet_buffer, packet_buffer>>
                 ELSE <<[linked EXCEPT ![head].prev = packet_buffer],
                        packet_buffer, tail>>
       ELSE LET linked == [nodes EXCEPT ![packet_buffer].next = nodes[p].next,
                                        ![packet_buffer].prev = p,
                                        ![p].next = packet_buffer]
            IN IF p = tail
                 THEN <<linked, head, packet_buffer>>
                 ELSE <<[linked EXCEPT ![nodes[p].next].prev = packet_buffer],
                        head, tail>>

\* one turn of the loop of extract_packets in which a record is read: it is put
\* into the reorder buffer and, with more than reorder_buffer_size entries, the
\* head is taken off and written (res is what fwrite does). Taking the head off
\* a list of one entry writes through a NULL pointer, which kills the process
m2ts_read_packet(res) ==
  /\ mpc = "loop"
  /\ m_input # <<>>
  /\ m_input' = Tail(m_input)
  /\ LET packet_buffer == IF packet_buffer_in_hand # NULL
                            THEN packet_buffer_in_hand
                            ELSE Len(m_nodes) + 1
         read == IF packet_buffer_in_hand # NULL
                   THEN [m_nodes EXCEPT ![packet_buffer] = parse_m2ts_packet(Head(m_input))]
                   ELSE Append(m_nodes, parse_m2ts_packet(Head(m_input)))
         ins == insert_packet(read, reorder_buffer_head, reorder_buffer_tail, packet_buffer)
         nodes == ins[1]
         head == ins[2]
     IN /\ reorder_buffer_tail' = ins[3]
        /\ m_write_failed' = (\/ m_write_failed
                              \/ /\ reorder_buffer_entries + 1 > reorder_buffer_size
                                 /\ nodes[head].next # NULL
                                 /\ res # "ok")
        /\ IF reorder_buffer_entries + 1 > reorder_buffer_size
             THEN IF nodes[head].next = NULL
               THEN /\ mpc' = "killed"
                    /\ m_nodes' = nodes
                    /\ reorder_buffer_head' = NULL
                    /\ reorder_buffer_entries' = reorder_buffer_entries + 1
                    /\ packet_buffer_in_hand' = NULL
                    /\ UNCHANGED <<m_output, m_ret>>
               ELSE /\ m_nodes' = [nodes EXCEPT ![nodes[head].next].prev = NULL]
                    /\ IF res = "ok"
                         THEN /\ m_output' = Append(m_output, nodes[head].ts_packet)
                              /\ reorder_buffer_head' = nodes[head].next
                              /\ reorder_buffer_entries' = reorder_buffer_entries
                              /\ packet_buffer_in_hand' = head
                              /\ UNCHANGED <<mpc, m_ret>>
                         ELSE /\ reorder_buffer_head' = NULL
                              /\ reorder_buffer_entries' = reorder_buffer_entries + 1
                              /\ packet_buffer_in_hand' = NULL
                              /\ m_ret' = 1
                              /\ mpc' = "done"
                              /\ UNCHANGED m_output
             ELSE /\ m_nodes' = nodes
                  /\ reorder_buffer_head' = head
                  /\ reorder_buffer_entries' = reorder_buffer_entries + 1
                  /\ packet_buffer_in_hand' = NULL
                  /\ UNCHANGED <<m_output, mpc, m_ret>>
  /\ UNCHANGED <<cfgvars, ringvars, parentvars, childvars, histvars, dirvars, sockvars, pcrvars,
                 argvars, m_all, m_write_results, reorder_buffer_size>>

\* the turn of the loop in which read_bytes returns EOF: the loop is left and
\* the buffer in hand freed
m2ts_end_of_file ==
  /\ mpc = "loop"
  /\ m_input = <<>>
  /\ mpc' = "drain"
  /\ packet_buffer_in_hand' = NULL
  /\ UNCHANGED <<cfgvars, ringvars, parentvars, childvars, histvars, dirvars, sockvars, pcrvars,
                 argvars, m_input, m_all, m_write_results, m_nodes,
                 reorder_buffer_size, reorder_buffer_head, reorder_buffer_tail,
                 reorder_buffer_entries, m_output, m_ret, m_write_failed>>

\* one turn of the loop that writes out what is left in the reorder buffer; when
\* fwrite fails the whole list is freed and the loop ends
m2ts_write_remaining(res) ==
  /\ mpc = "drain"
  /\ reorder_buffer_head # NULL
  /\ IF res = "ok"
       THEN /\ m_output' = Append(m_output, m_nodes[reorder_buffer_head].ts_packet)
            /\ reorder_buffer_head' = m_nodes[reorder_buffer_head].next
       ELSE /\ reorder_buffer_head' = NULL
            /\ UNCHANGED m_output
  /\ m_write_failed' = (m_write_failed \/ res # "ok")
  /\ UNCHANGED <<cfgvars, ringvars, parentvars, childvars, histvars, dirvars, sockvars, pcrvars,
                 argvars, m_input, m_all, m_write_results, m_nodes,
                 reorder_buffer_size, reorder_buffer_tail,
                 reorder_buffer_entries, packet_buffer_in_hand, mpc, m_ret>>

\* the return of extract_packets after that loop
m2ts_return ==
  /\ mpc = "drain"
  /\ reorder_buffer_head = NULL
  /\ mpc' = "done"
  /\ m_ret' = 0
  /\ UNCHANGED <<cfgvars, ringvars, parentvars, childvars, histvars, dirvars, sockvars, pcrvars,
                 argvars, m_input, m_all, m_write_results, m_nodes,
                 reorder_buffer_size, reorder_buffer_head, reorder_buffer_tail,
                 reorder_buffer_entries, packet_buffer_in_hand, m_output,
                 m_write_failed>>

M2tsNext ==
  \/ \E res \in m_write_results : m2ts_read_packet(res)
  \/ m2ts_end_of_file
  \/ \E res \in m_write_results : m2ts_write_remaining(res)
  \/ m2ts_return

\* ------------------------------------------------------------ specifications
\* map_circular_buffer, build_buffered_TS_output, and the initial values of the
\* statics, for the given sets of option values
InitStateOf(sizes, items, maxnowaits, waitfors, rates, calls, plimit, climit, steps, bytes, results, ranges) ==
  /\ global_perturb_range \in ranges
  /\ size \in sizes
  /\ TS_in_item \in items
  /\ maxnowait \in maxnowaits
  /\ waitfor \in waitfors
  /\ rate \in rates
  /\ global_parent_wait = DEFAULT_PARENT_WAIT
  /\ global_child_wait = DEFAULT_CHILD_WAIT
  /\ max_calls = calls
  /\ parent_poll_limit = plimit
  /\ child_poll_limit = climit
  /\ clock_steps = steps
  /\ sync_bytes = bytes
  /\ write_results = results
  /\ start = 1
  /\ end = 0
  /\ item = [i \in 0..(size - 1) |-> ZeroItem]
  /\ ret = 0
  /\ started = FALSE
  /\ which = (0 + 1) % size
  /\ num_packets = 0
  /\ count = 0
  /\ last_time = 0
  /\ full_count = 0
  /\ arg = ZeroPacket
  /\ ring_unmapped = FALSE
  /\ child_status = 0
  /\ starting = TRUE
  /\ reset = TRUE
  /\ last_packet_time = 0
  /\ our_start = 0
  /\ delta_start = 0
  /\ sent_without_delay = 0
  /\ fill_count = 0
  /\ empty_count = 0
  /\ this_packet_time = 0
  /\ wf = 0
  /\ now = 0
  /\ committed = <<>>
  /\ sunk = <<>>
  /\ released = 0
  /\ polls_this_call = 0
  /\ gave_up_after = 0
  /\ nosleep_run = 0
  /\ was_full = FALSE
  /\ waited_fill = FALSE
  /\ waited_empty = FALSE
  /\ outwaited = FALSE
  /\ close_log = <<>>
  /\ command = "COMMAND_PAUSE"
  /\ command_changed = FALSE
  /\ atomic_command = FALSE
  /\ dret = 0
  /\ darg = ZeroPacket
  /\ d_calls = 0
  /\ d_written = <<>>
  /\ d_reads = 0
  /\ d_seen = FALSE
  /\ d_log = <<>>
  /\ big_skip = "no"

\* the same without -perturb
InitState(sizes, items, maxnowaits, waitfors, rates, calls, plimit, climit, steps, bytes, results) ==
  InitStateOf(sizes, items, maxnowaits, waitfors, rates, calls, plimit, climit, steps, bytes, results, {0})

\* ------------------------------------------------------------ write_socket_data, byte by byte
\* what a read below the start of `data` may find there
StrayBytes == {0, TS_SYNC_BYTE}

\* the bytes send is handed by send(output, &(data[start]), n, 0); a byte
\* below data[0] is not part of the payload and may be anything
handed_to_send(n, stray) ==
  [i \in 1..n |-> IF s_start + i - 1 >= 0 THEN s_data[s_start + i] ELSE stray]

\* the end of an iteration of the loop: left -= written; start += written;
\* and the test of the while
after_send(written) ==
  /\ s_left' = s_left - written
  /\ s_start' = s_start + written
  /\ s_pc' = IF s_left - written > 0 THEN "loop" ELSE "done"
  /\ s_ret' = 0

\* write_socket_data up to the loop: a payload that does not begin with the
\* sync byte is not sent and 0 is returned
write_socket_data_enter ==
  /\ s_pc = "enter"
  /\ s_left' = Len(s_data)
  /\ s_start' = 0
  /\ s_ret' = 0
  /\ s_pc' = IF s_data[1] # TS_SYNC_BYTE THEN "done"
             ELSE IF Len(s_data) > 0 THEN "loop" ELSE "done"
  /\ UNCHANGED <<s_data, s_handed, s_nobufs>>
  /\ UNCHANGED <<cfgvars, ringvars, parentvars, childvars, histvars, dirvars, argvars, m2tsvars, pcrvars>>

\* an iteration in which send takes `written` of the `left` bytes it is given
send_written(written, stray) ==
  /\ s_pc = "loop"
  /\ written \in 1..s_left
  /\ s_handed' = s_handed \o handed_to_send(written, stray)
  /\ after_send(written)
  /\ UNCHANGED <<s_data, s_nobufs>>
  /\ UNCHANGED <<cfgvars, ringvars, parentvars, childvars, histvars, dirvars, argvars, m2tsvars, pcrvars>>

\* an iteration in which send returns -1 with errno ENOBUFS: a warning, and
\* the loop goes on to its end with written = -1
send_ENOBUFS ==
  /\ s_pc = "loop"
  /\ s_nobufs < MaxNoBufs
  /\ s_nobufs' = s_nobufs + 1
  /\ after_send(-1)
  /\ UNCHANGED <<s_data, s_handed>>
  /\ UNCHANGED <<cfgvars, ringvars, parentvars, childvars, histvars, dirvars, argvars, m2tsvars, pcrvars>>

\* an iteration in which send returns -1 with any other errno: return 1
send_error ==
  /\ s_pc = "loop"
  /\ s_pc' = "done"
  /\ s_ret' = 1
  /\ UNCHANGED <<s_data, s_left, s_start, s_handed, s_nobufs>>
  /\ UNCHANGED <<cfgvars, ringvars, parentvars, childvars, histvars, dirvars, argvars, m2tsvars, pcrvars>>

SocketNext ==
  \/ write_socket_data_enter
  \/ \E written \in 1..(MaxDataLen + MaxNoBufs) : \E stray \in StrayBytes : send_written(written, stray)
  \/ send_ENOBUFS
  \/ send_error

\* ------------------------------------------------------------ time stamps from PCRs
\* The doubles of set_buffer_item_time_pcr (pcr_rate, available_time and what
\* is computed from them) are kept as whole numbers, rounded down: rates in
\* bytes per second, times in microseconds. A PCR is in ticks of the 27 MHz
\* clock, as the code takes it; the PCRs of writer->packet are the values
\* write_to_buffered_TS_output has stored.

\* the pcr_rate that a division by a delta_pcr of 0 gives
PlusInfinity == MaxS32

\* <<a * b \div c, a * b % c>> for a, b >= 0 and 0 < c <= 2^30, by halving b,
\* so that no intermediate value leaves 32 bits
RECURSIVE MulDivMod(_, _, _)
MulDivMod(a, b, c) ==
  IF b = 0 THEN <<0, 0>>
  ELSE LET h == MulDivMod(a, b \div 2, c)
           carry2 == IF 2 * h[2] >= c THEN 1 ELSE 0
           q2 == 2 * h[1] + carry2
           r2 == 2 * h[2] - carry2 * c
           qa == IF b % 2 = 1 THEN a \div c ELSE 0
           ra == IF b % 2 = 1 THEN a % c ELSE 0
           carry3 == IF r2 + ra >= c THEN 1 ELSE 0
       IN <<q2 + qa + carry3, r2 + ra - carry3 * c>>

MulDiv(a, b, c) == MulDivMod(a, b, c)[1]

\* x * 1000000.0 / r for a rate r
over_rate(x, r) == IF r = PlusInfinity THEN 0 ELSE MulDiv(x, 1000000, r)

\* a pcr_rate in bits per second
pcr_rate_in_bits(delta_bytes, delta_pcr) ==
  IF delta_pcr = 0 THEN PlusInfinity ELSE MulDiv(delta_bytes * 8 * 27, 1000000, delta_pcr)

\* pcr_rate = (delta_bytes * 27.0 / delta_pcr) * 1000000
pcr_rate_from(delta_bytes, delta_pcr) ==
  IF delta_pcr = 0 THEN PlusInfinity ELSE MulDiv(delta_bytes * 27, 1000000, delta_pcr)

\* available_bytes * 1000000.0 / (pcr_rate * writer->prime_speedup/100.0)
prime_time(bytes, r) ==
  IF r = PlusInfinity THEN 0 ELSE MulDiv(bytes * 100, 1000000, r * DEFAULT_PRIME_SPEEDUP)

\* a loop over the whole of writer->packet, whatever the item holds
first_pcr_packet_whole_array(pkts, n) ==
  IF \E i \in DOMAIN pkts : pkts[i].got_pcr
    THEN CHOOSE i \in DOMAIN pkts :
           pkts[i].got_pcr /\ \A j \in 1..(i - 1) : ~pkts[j].got_pcr
    ELSE 0

\* the loop over writer->packet[0..num_packets): the first packet with a PCR,
\* or 0
first_pcr_packet(pkts, n) ==
  IF \E i \in 1..n : pkts[i].got_pcr
    THEN CHOOSE i \in 1..n :
           pkts[i].got_pcr /\ \A j \in 1..(i - 1) : ~pkts[j].got_pcr
    ELSE 0

\* pcr = (uint64_t)((double)pcr * writer->pcr_scale), the scale being a
\* percentage / 100.0
scaled_pcr(pcr) == (pcr * pcr_scale) \div 100

\* write_to_buffered_TS_output, for each packet of pkts: what it notes in
\* writer->packet, from entry 0 on; the entries after them stay as they were
noted_packets(pkts) ==
  [i \in DOMAIN packet |->
     IF i <= Len(pkts)
       THEN [index |-> pkts[i].index, got_pcr |-> pkts[i].got_pcr,
             pcr |-> IF pkts[i].got_pcr THEN scaled_pcr(pkts[i].pcr) ELSE 0]
       ELSE packet[i]]

\* (uint32_t)(last_timestamp + num_microseconds): the sum is converted from a
\* double; a sum of 2^32 or more does not fit and the conversion is undefined
timestamp_of(last, us) ==
  IF last < 0 /\ last + us >= 0
    THEN {AddU32(last, us), 0, -1}
    ELSE {AddU32(last, us)}

\* set_buffer_item_time_pcr for writer->packet as it stands (`noted`) and
\* writer->num_packets = n
set_buffer_item_time_pcr(noted, n) ==
  LET rate0 == IF pcr_rate < 1 THEN rate ELSE pcr_rate
      seed == available_bytes <= 0 \/ available_time <= 0
      bytes0 == IF seed THEN TS_PACKET_SIZE * TS_in_item * prime_size
                        ELSE available_bytes
      time0 == IF seed THEN prime_time(bytes0, rate0) ELSE available_time
      prime_time0 == IF seed /\ ~had_second_pcr THEN time0 ELSE initial_prime_time
      prime_bytes0 == IF seed /\ ~had_second_pcr THEN bytes0 ELSE initial_prime_bytes
      ii == first_pcr_packet(noted, n)
      num_bytes == TS_PACKET_SIZE * n
      num_microseconds == MulDiv(num_bytes, time0, bytes0)
      bytes1 == bytes0 - num_bytes
      time1 == time0 - num_microseconds
  IN /\ item_time' \in timestamp_of(last_timestamp, num_microseconds)
     /\ pool_bytes' = bytes0
     /\ pool_time' = time0
     /\ last_timestamp' = item_time'
     /\ initial_prime_time' = prime_time0
     /\ initial_prime_bytes' = prime_bytes0
     /\ IF ii = 0
          THEN /\ available_bytes' = bytes1
               /\ available_time' = time1
               /\ pcr_rate' = rate0
               /\ UNCHANGED <<had_first_pcr, had_second_pcr, last_pcr, last_pcr_index>>
          ELSE /\ last_pcr' = noted[ii].pcr
               /\ last_pcr_index' = noted[ii].index
               /\ IF noted[ii].pcr < last_pcr
                    THEN /\ had_first_pcr' = FALSE
                         /\ had_second_pcr' = FALSE
                         /\ available_bytes' = 0
                         /\ available_time' = 0
                         /\ pcr_rate' = rate0
                    ELSE IF ~had_first_pcr
                      THEN /\ had_first_pcr' = TRUE
                           /\ available_bytes' = bytes1
                           /\ available_time' = time1
                           /\ pcr_rate' = rate0
                           /\ UNCHANGED had_second_pcr
                      ELSE LET delta_pcr == noted[ii].pcr - last_pcr
                               delta_bytes == (noted[ii].index - last_pcr_index) * TS_PACKET_SIZE
                               new_rate == pcr_rate_from(delta_bytes, delta_pcr)
                               time2 == time1 + over_rate(delta_bytes, new_rate)
                           IN /\ pcr_rate' = new_rate
                              /\ available_bytes' = bytes1 + delta_bytes
                              /\ available_time' =
                                   IF had_second_pcr THEN time2
                                   ELSE (time2 - prime_time0) + over_rate(prime_bytes0, new_rate)
                              /\ had_second_pcr' = TRUE
                              /\ UNCHANGED had_first_pcr

\* the stream moves on past the packets pkts
stream_advances(pkts) ==
  LET withpcr == {i \in DOMAIN pkts : pkts[i].got_pcr}
      first == CHOOSE i \in withpcr : \A j \in withpcr : i <= j
  IN /\ pcr_count' = pcr_count + Len(pkts)
     /\ stream_pcr' = IF withpcr = {} THEN stream_pcr ELSE pkts[first].pcr
     /\ stream_pcr_index' = IF withpcr = {} THEN stream_pcr_index ELSE pkts[first].index
     /\ UNCHANGED <<stream_rate, pcr_scale>>

\* internal_flush_buffered_TS_output in PCR mode, for an item of the packets
\* pkts that write_to_buffered_TS_output has noted: the item is stamped and
\* the flag of the first entry of writer->packet is cleared
flush_with_pcrs(pkts) ==
  /\ set_buffer_item_time_pcr(noted_packets(pkts), Len(pkts))
  /\ stamped_item' = [i \in 1..Len(pkts) |-> noted_packets(pkts)[i]]
  /\ packet' = [noted_packets(pkts) EXCEPT ![1].got_pcr = FALSE]
  /\ items_stamped' = items_stamped + 1
  /\ stream_advances(pkts)
  /\ UNCHANGED <<cfgvars, ringvars, parentvars, childvars, histvars, dirvars, argvars, m2tsvars, sockvars>>

\* TS_in_item calls of write_to_buffered_TS_output in PCR mode, the last of
\* which flushes the item
write_item_with_pcrs(pkts) ==
  /\ pcr_pc = "run"
  /\ items_stamped < MaxPcrItems
  /\ Len(pkts) = TS_in_item
  /\ flush_with_pcrs(pkts)
  /\ UNCHANGED pcr_pc

\* fewer than TS_in_item calls of write_to_buffered_TS_output, then
\* write_EOF_to_buffered_TS_output up to add_eof_entry: the open item, if there
\* is one, is flushed
write_EOF_with_pcrs(pkts) ==
  /\ pcr_pc = "run"
  /\ Len(pkts) < TS_in_item
  /\ pcr_pc' = "eof"
  /\ IF Len(pkts) > 0
       THEN flush_with_pcrs(pkts)
       ELSE /\ UNCHANGED <<cfgvars, ringvars, parentvars, childvars, histvars, dirvars, argvars, m2tsvars, sockvars>>
            /\ UNCHANGED <<available_bytes, available_time, last_pcr_index, last_pcr, pcr_rate, last_timestamp, had_first_pcr, had_second_pcr, initial_prime_time, initial_prime_bytes,
                           packet, item_time, pcr_count, stream_rate, stream_pcr, stream_pcr_index, items_stamped, pool_bytes, pool_time, pcr_scale,
                           stamped_item>>

\* add_eof_entry in PCR mode: set_buffer_item_time for the EOF entry, with
\* writer->packet and writer->num_packets as the last flush left them
add_eof_entry_with_pcrs ==
  /\ pcr_pc = "eof"
  /\ pcr_pc' = "closed"
  /\ set_buffer_item_time_pcr(packet, 0)
  /\ stamped_item' = <<>>
  /\ items_stamped' = items_stamped + 1
  /\ UNCHANGED <<packet, pcr_count, stream_rate, stream_pcr, stream_pcr_index, pcr_scale>>
  /\ UNCHANGED <<cfgvars, ringvars, parentvars, childvars, histvars, dirvars, argvars, m2tsvars, sockvars>>

\* the PCR a packet of the stream may carry: the first PCR of the stream; the
\* PCR that lies as far after the last one as the bytes between the two
\* packets take at the rate of the stream; the last PCR again; or a PCR from
\* the start of the stream
stream_pcrs(index) ==
  IF stream_pcr_index = -1 THEN {FirstPcr}
  ELSE {stream_pcr + MulDiv(27000000, (index - stream_pcr_index) * TS_PACKET_SIZE, stream_rate),
        stream_pcr, 0}

\* the items of n packets the stream may give next: none of the packets with
\* a PCR; the first or the last of them with one; or the first with one and
\* the last with a later one
stream_items(n) ==
  {[i \in 1..n |-> [index |-> pcr_count + i - 1, got_pcr |-> FALSE, pcr |-> 0]]}
  \cup UNION {{[i \in 1..n |->
                   [index |-> pcr_count + i - 1, got_pcr |-> (i = at),
                    pcr |-> IF i = at THEN v ELSE 0]] :
                 v \in stream_pcrs(pcr_count + at - 1)} : at \in {1, n}}
  \cup {[i \in 1..n |->
            [index |-> pcr_count + i - 1, got_pcr |-> (i = 1 \/ i = n),
             pcr |-> IF i = 1 THEN v ELSE IF i = n THEN v + 1 ELSE 0]] :
          v \in (IF n >= 2 THEN stream_pcrs(pcr_count) ELSE {})}

PcrNext ==
  \/ \E pkts \in stream_items(TS_in_item) : write_item_with_pcrs(pkts)
  \/ \E n \in 0..(TS_in_item - 1) : \E pkts \in stream_items(n) : write_EOF_with_pcrs(pkts)
  \/ add_eof_entry_with_pcrs

\* set_buffer_item_time_pcr is not running
NoPcr ==
  /\ available_bytes = 0
  /\ available_time = 0
  /\ last_pcr_index = -1
  /\ last_pcr = 0
  /\ pcr_rate = 0
  /\ last_timestamp = 0
  /\ had_first_pcr = FALSE
  /\ had_second_pcr = FALSE
  /\ initial_prime_time = 0
  /\ initial_prime_bytes = 0
  /\ packet = <<>>
  /\ item_time = 0
  /\ pcr_count = 0
  /\ stream_rate = 0
  /\ stream_pcr = 0
  /\ stream_pcr_index = -1
  /\ items_stamped = 0
  /\ pcr_pc = "unused"
  /\ pool_bytes = 0
  /\ pool_time = 0
  /\ pcr_scale = 100
  /\ stamped_item = <<>>

\* write_socket_data is not running byte by byte
NoSocket ==
  /\ s_data = <<>>
  /\ s_left = 0
  /\ s_start = 0
  /\ s_pc = "unused"
  /\ s_ret = 0
  /\ s_handed = <<>>
  /\ s_nobufs = 0

\* extract_packets of m2ts2ts is not running
NoM2ts ==
  /\ m_input = <<>>
  /\ m_all = <<>>
  /\ m_write_results = {"ok"}
  /\ m_nodes = <<>>
  /\ reorder_buffer_size = 0
  /\ reorder_buffer_head = NULL
  /\ reorder_buffer_tail = NULL
  /\ reorder_buffer_entries = 0
  /\ packet_buffer_in_hand = NULL
  /\ m_output = <<>>
  /\ mpc = "unused"
  /\ m_ret = 0
  /\ m_write_failed = FALSE

\* tswrite_open for UDP followed by tswrite_start_buffering: the ring is built
\* and the child started; there is no command input
InitBufferedOf(sizes, items, maxnowaits, waitfors, rates, calls, plimit, climit, steps, bytes, results, ranges) ==
  /\ InitStateOf(sizes, items, maxnowaits, waitfors, rates, calls, plimit, climit, steps, bytes, results, ranges)
  /\ ppc = "idle"
  /\ cpc = "run"
  /\ how = "udp"
  /\ command_socket = -1
  /\ cmd_pending = <<>>
  /\ dpc = "buffered"
  /\ argv = <<>>
  /\ context = [circ_buf_size |-> size, prime_size |-> DEFAULT_PRIME_SIZE]
  /\ args_ret = 0
  /\ sb_ret = 0
  /\ prime_size = DEFAULT_PRIME_SIZE
  /\ apc = "started"
  /\ NoM2ts
  /\ NoSocket
  /\ NoPcr

InitBuffered(sizes, items, maxnowaits, waitfors, rates, calls, plimit, climit, steps, bytes, results) ==
  InitBufferedOf(sizes, items, maxnowaits, waitfors, rates, calls, plimit, climit, steps, bytes, results, {0})

\* the buffered writer fed with packets that start with the sync byte, over a
\* sink that takes every payload
InitWith(sizes, items, maxnowaits, waitfors, rates, calls, plimit, climit, steps) ==
  InitBuffered(sizes, items, maxnowaits, waitfors, rates, calls, plimit, climit, steps, {TS_SYNC_BYTE}, {"ok"})

\* tswrite_open alone, for any kind of sink, and tswrite_start_input for TCP:
\* no ring and no child; `pendings` are the inputs the command socket may hold
InitDirect(sinks, pendings, calls, bytes, results) ==
  /\ InitState({2}, {1}, {-1}, {DEFAULT_WAITFOR}, {DEFAULT_BYTE_RATE}, calls, 1, 1, {0}, bytes, results)
  /\ ppc = "direct"
  /\ cpc = "nochild"
  /\ how \in sinks
  /\ command_socket \in (IF how = "tcp" THEN {-1, 0} ELSE {-1})
  /\ cmd_pending \in (IF command_socket = -1 THEN {<<>>} ELSE pendings)
  /\ dpc = "idle"
  /\ argv = <<>>
  /\ context = DefaultContext
  /\ args_ret = 0
  /\ sb_ret = 0
  /\ prime_size = 0
  /\ apc = "unbuffered"
  /\ NoM2ts
  /\ NoSocket
  /\ NoPcr

Init ==
  InitWith(2..MaxSize, 1..MaxTSInItem, {-1, 1}, {DEFAULT_WAITFOR},
           {DEFAULT_BYTE_RATE}, MaxPackets, PollLimit, PollLimit, {0})

Next == ParentNext \/ ChildNext

Spec == Init /\ [][Next]_vars

\* the same over every ring size that -buffer accepts, from one slot on
InitAnyRing ==
  InitWith(1..MaxSize, 1..MaxTSInItem, {-1, 1}, {DEFAULT_WAITFOR},
           {DEFAULT_BYTE_RATE}, MaxPackets, PollLimit, PollLimit, {0})

SpecAnyRing == InitAnyRing /\ [][Next]_vars

\* both processes are scheduled again and again
FairSpec == Init /\ [][Next]_vars /\ WF_vars(ChildNext) /\ WF_vars(ParentNext)

\* the parent's polling loop followed past PARENT_GIVE_UP_AFTER
InitParentPatience ==
  InitWith({2}, {1}, {-1}, {DEFAULT_WAITFOR}, {DEFAULT_BYTE_RATE}, 3,
           PARENT_GIVE_UP_AFTER + ExtraPolls, 1, {0})

SpecParentPatience == InitParentPatience /\ [][Next]_vars

\* the child's polling loops followed past CHILD_GIVE_UP_AFTER
InitChildPatience ==
  InitWith({2, 3}, {1}, {-1}, {DEFAULT_WAITFOR}, {DEFAULT_BYTE_RATE}, 2,
           1, CHILD_GIVE_UP_AFTER + ExtraPolls, {0})

SpecChildPatience == InitChildPatience /\ [][Next]_vars

\* the pacing options -maxnowait 0|1|2 and -waitfor 0|1000, with a wall clock
\* that either stands still or jumps by more than the late-reset limit
InitPacing ==
  InitWith({2, 3}, {1}, {0, 1, 2}, {0, DEFAULT_WAITFOR}, {DEFAULT_BYTE_RATE},
           MaxPackets, PollLimit, PollLimit, {0, LATE_RESET_LIMIT + 100000})

SpecPacing == InitPacing /\ [][Next]_vars

\* the milliseconds of -perturb the consumer is run with
PerturbRanges == {1}

\* -maxnowait 1 or 2 with the default -waitfor, under -perturb, with a wall
\* clock that either stands still or jumps by more than the late-reset limit
InitPerturb ==
  InitBufferedOf({2, 3}, {1}, {1, 2}, {DEFAULT_WAITFOR}, {DEFAULT_BYTE_RATE},
                 MaxPackets, PollLimit, PollLimit, {0, LATE_RESET_LIMIT + 100000},
                 {TS_SYNC_BYTE}, {"ok"}, PerturbRanges)

SpecPerturb == InitPerturb /\ [][Next]_vars

\* clock readings around the late-reset limit: with one packet per item at the
\* default rate the items lie 752 microseconds apart, so the second item is on
\* time after no step, late by one less than the limit after the middle step
\* and late by the limit itself after the last one
DriftSteps ==
  {0, LATE_RESET_LIMIT + elapsed_time_at(TS_PACKET_SIZE, DEFAULT_BYTE_RATE) - 1, LATE_RESET_LIMIT + elapsed_time_at(TS_PACKET_SIZE, DEFAULT_BYTE_RATE)}

InitDrift ==
  InitWith({2, 3}, {1}, {-1, 1}, {DEFAULT_WAITFOR}, {DEFAULT_BYTE_RATE},
           MaxPackets, PollLimit, PollLimit, DriftSteps)

SpecDrift == InitDrift /\ [][Next]_vars

\* the number of sends of the burst run
BurstSends == 10

\* the lowest -byterate at which an item of one packet lasts less than a
\* microsecond, so that every item carries the same time and is due at once
AllDueRate == TS_PACKET_SIZE * 1000000 + 1

\* -maxnowait 3 -waitfor 1000 over items that are all due at once, with a
\* clock that moves only while the consumer sleeps
InitBurst ==
  InitWith({2, 3}, {1}, {3}, {DEFAULT_WAITFOR}, {AllDueRate},
           BurstSends, PollLimit, PollLimit, {0})

SpecBurst == InitBurst /\ [][Next]_vars

\* rates at which an item of one packet lasts more than a second: 1.88 s at
\* -byterate 100 (1880000 * 1000 still fits an int), 4.7 s at -byterate 40
\* (4700000 * 1000 does not)
SlowRates == {100, 40}

InitSlow ==
  InitWith({2, 3}, {1}, {-1, 1}, {DEFAULT_WAITFOR}, SlowRates,
           MaxPackets, PollLimit, PollLimit, {0})

SpecSlow == InitSlow /\ [][Next]_vars

\* a long run in plain mode: -byterate 1 makes each item of two packets last
\* 376 seconds, so that LongRunPackets packets cover more than 2^32 microseconds
InitLongRun ==
  InitWith({2}, {2}, {-1}, {DEFAULT_WAITFOR}, {1}, LongRunPackets, 1, 1, {0})

SpecLongRun == InitLongRun /\ [][Next]_vars

\* every kind of sink, direct and buffered, fed with packets of which some do
\* not start with the sync byte, over sinks whose writes may fail
SinkKinds == {"stdout", "file", "tcp", "udp"}

SomeReads == {ReadByte("q"), ReadByte("n"), ReadByte("]"), ReadByte("\n"), ReadEOF}

InitSinks ==
  \/ InitBuffered({2, 3}, 1..MaxTSInItem, {-1}, {DEFAULT_WAITFOR}, {DEFAULT_BYTE_RATE}, MaxDirect, PollLimit, PollLimit, {0}, {TS_SYNC_BYTE, 0}, {"ok", "fail"})
  \/ InitDirect(SinkKinds, SeqsUpTo(SomeReads, MaxCmds), MaxDirect, {TS_SYNC_BYTE, 0}, {"ok", "fail"})

\* a TCP writer with command input, the client sending, after up to MaxCmds - 1
\* other reads, any byte read_command has a case for, a newline, a byte it has
\* no case for, or closing or breaking the connection
AllReads ==
  {ReadByte(c) : c \in CommandChars} \cup {ReadByte("\n"), ReadByte("x"), ReadEOF, ReadError}

CommandInputs ==
  {<<>>} \cup {Append(q, r) : q \in SeqsUpTo(SomeReads, MaxCmds - 1), r \in AllReads}

InitCommands ==
  InitDirect({"tcp"}, CommandInputs, MaxDirect, {TS_SYNC_BYTE}, {"ok", "fail"})

SpecCommands == InitCommands /\ [][DirectNext]_vars

\* a program that reads -buffer and -prime from its command line, or that gives
\* tswrite_start_buffering its own values; before the ring is built the fields
\* of the ring are not looked at
Switches ==
  {<<"-buffer", v>> : v \in {-1, 0, 2}} \cup {<<"-prime", v>> : v \in {-1, 0, 1}}

InitArgs ==
  /\ InitState({1}, {1}, {-1}, {DEFAULT_WAITFOR}, {DEFAULT_BYTE_RATE}, MaxDirect, PollLimit, PollLimit, {0}, {TS_SYNC_BYTE}, {"ok"})
  /\ ppc = "unbuilt"
  /\ cpc = "nochild"
  /\ how \in {"udp", "tcp"}
  /\ command_socket = -1
  /\ cmd_pending = <<>>
  /\ dpc = "buffered"
  /\ argv \in SeqsUpTo(Switches, MaxSwitches)
  /\ context = DefaultContext
  /\ args_ret = 0
  /\ sb_ret = 0
  /\ prime_size = 0
  /\ apc = "args"
  /\ NoM2ts
  /\ NoSocket
  /\ NoPcr

NextArgs == ArgsNext \/ ParentNext \/ ChildNext

SpecArgs == InitArgs /\ [][NextArgs]_vars

\* m2ts2ts over every input of up to MaxRecords complete records whose time
\* stamps are among Stamps (four bytes each, so that the order of the stamps is
\* not the order of any single byte), with -buffer 1..MaxReorder, over an output
\* that takes every write; the TS part of a record is told by its place in the
\* input
Stamps == {<<0, 0, 0, 255>>, <<0, 0, 1, 0>>, <<0, 0, 1, 1>>}

RECURSIVE StampSeqs(_)
StampSeqs(n) ==
  IF n = 0 THEN {<<>>}
  ELSE LET shorter == StampSeqs(n - 1)
       IN shorter \cup {Append(q, t) : q \in {r \in shorter : Len(r) = n - 1}, t \in Stamps}

\* m2ts2ts started on the records `stamps_of` allows, with -buffer among `sizes`
\* and an output whose writes have the results `results`
InitM2tsWith(stamps_of, sizes, results) ==
  /\ InitState({1}, {1}, {-1}, {DEFAULT_WAITFOR}, {DEFAULT_BYTE_RATE}, 0, 1, 1, {0}, {TS_SYNC_BYTE}, {"ok"})
  /\ ppc = "unbuilt"
  /\ cpc = "nochild"
  /\ how = "file"
  /\ command_socket = -1
  /\ cmd_pending = <<>>
  /\ dpc = "unused"
  /\ argv = <<>>
  /\ context = DefaultContext
  /\ args_ret = 0
  /\ sb_ret = 0
  /\ prime_size = 0
  /\ apc = "unused"
  /\ \E stamps \in stamps_of :
       m_all = [i \in 1..Len(stamps) |-> [stamp |-> stamps[i], ts |-> i]]
  /\ m_input = m_all
  /\ m_write_results = results
  /\ m_nodes = <<>>
  /\ reorder_buffer_size \in sizes
  /\ reorder_buffer_head = NULL
  /\ reorder_buffer_tail = NULL
  /\ reorder_buffer_entries = 0
  /\ packet_buffer_in_hand = NULL
  /\ m_output = <<>>
  /\ mpc = "loop"
  /\ m_ret = 0
  /\ m_write_failed = FALSE
  /\ NoSocket
  /\ NoPcr

InitM2ts == InitM2tsWith(StampSeqs(MaxRecords), 1..MaxReorder, {"ok"})

SpecM2ts == InitM2ts /\ [][M2tsNext]_vars

\* the same over every reorder size that -buffer accepts, from 0 on
InitM2tsAny == InitM2tsWith(StampSeqs(MaxRecords), 0..MaxReorder, {"ok"})

SpecM2tsAny == InitM2tsAny /\ [][M2tsNext]_vars

\* the same over an output whose writes may fail
InitM2tsFail == InitM2tsWith(StampSeqs(MaxRecords), 1..MaxReorder, {"ok", "fail"})

SpecM2tsFail == InitM2tsFail /\ [][M2tsNext]_vars

\* payloads of 1..MaxDataLen bytes: the first byte is the sync byte or not,
\* the bytes after it are all different
Payloads ==
  {[i \in 1..n |-> IF i = 1 THEN b ELSE i] : n \in 1..MaxDataLen, b \in {TS_SYNC_BYTE, 0}}

\* one call of write_socket_data on a socket whose send may take a part of
\* what it is given, find no buffer space, or fail
InitSocket ==
  /\ InitState({1}, {1}, {-1}, {DEFAULT_WAITFOR}, {DEFAULT_BYTE_RATE}, 0, 1, 1, {0}, {TS_SYNC_BYTE}, {"ok"})
  /\ ppc = "unbuilt"
  /\ cpc = "nochild"
  /\ how = "udp"
  /\ command_socket = -1
  /\ cmd_pending = <<>>
  /\ dpc = "unused"
  /\ argv = <<>>
  /\ context = DefaultContext
  /\ args_ret = 0
  /\ sb_ret = 0
  /\ prime_size = 0
  /\ apc = "unused"
  /\ NoM2ts
  /\ s_data \in Payloads
  /\ s_left = 0
  /\ s_start = 0
  /\ s_pc = "enter"
  /\ s_ret = 0
  /\ s_handed = <<>>
  /\ s_nobufs = 0
  /\ NoPcr

SpecSocket == InitSocket /\ [][SocketNext]_vars

\* the byte rates the PCRs of a stream stand for
StreamRates == {2000000, 250000}

\* items closed one after the other in PCR mode, with the default initial
\* rate, prime size and prime speed-up, for a stream whose PCRs stand for one
\* of StreamRates
\* the values of -tsinpkt the stream is stamped under
ItemSizes == {1, 2}

InitPcrWith(scales) ==
  /\ InitState({2}, ItemSizes, {-1}, {DEFAULT_WAITFOR}, {DEFAULT_BYTE_RATE}, 0, 1, 1, {0}, {TS_SYNC_BYTE}, {"ok"})
  /\ ppc = "unbuilt"
  /\ cpc = "nochild"
  /\ how = "udp"
  /\ command_socket = -1
  /\ cmd_pending = <<>>
  /\ dpc = "unused"
  /\ argv = <<>>
  /\ context = DefaultContext
  /\ args_ret = 0
  /\ sb_ret = 0
  /\ prime_size = DEFAULT_PRIME_SIZE
  /\ apc = "unused"
  /\ NoM2ts
  /\ NoSocket
  /\ available_bytes = 0
  /\ available_time = 0
  /\ last_pcr_index = -1
  /\ last_pcr = 0
  /\ pcr_rate = 0
  /\ last_timestamp = 0
  /\ had_first_pcr = FALSE
  /\ had_second_pcr = FALSE
  /\ initial_prime_time = 0
  /\ initial_prime_bytes = 0
  /\ packet = [i \in 1..TS_in_item |-> [index |-> 0, got_pcr |-> FALSE, pcr |-> 0]]
  /\ item_time = 0
  /\ pcr_count = 0
  /\ stream_rate \in StreamRates
  /\ stream_pcr = 0
  /\ stream_pcr_index = -1
  /\ items_stamped = 0
  /\ pcr_pc = "run"
  /\ pool_bytes = 0
  /\ pool_time = 0
  /\ pcr_scale \in scales
  /\ stamped_item = <<>>

InitPcr == InitPcrWith({100})

SpecPcr == InitPcr /\ [][PcrNext]_vars

\* the values of -pcr_scale, as percentages: none given, and one that halves
\* the PCRs of the stream
PcrScales == {100, 50}

InitPcrScaled == InitPcrWith(PcrScales)

SpecPcrScaled == InitPcrScaled /\ [][PcrNext]_vars

NextSinks == ParentNext \/ ChildNext \/ DirectNext

SpecSinks == InitSinks /\ [][NextSinks]_vars

\* ------------------------------------------------------------ properties
\* C1: the items handed to the sink are, in order and unaltered (payload and
\* length), the items the producer committed; when the consumer has exited on
\* the EOF entry, every item committed before that entry has been handed over
FifoOrder ==
  /\ Len(sunk) <= Len(committed)
  /\ \A i \in 1..Len(sunk) :
       /\ ~committed[i].eof
       /\ sunk[i].data = committed[i].data
       /\ sunk[i].length = committed[i].length
  /\ (cpc = "exited" /\ child_status = 0) =>
       /\ Len(committed) = Len(sunk) + 1
       /\ committed[Len(committed)].eof

\* a run in which the ring was filled, emptied and refilled, and all the items
\* written went through to the sink before the EOF entry
FifoOrderWitness ==
  /\ cpc = "exited"
  /\ child_status = 0
  /\ Len(sunk) >= 3
  /\ size = 3
  /\ waited_fill
  /\ waited_empty

\* C2: once the EOF entry has been written, the consumer eventually reads it,
\* exits with status 0 having released every slot committed, and tswrite_close
\* returns
EofTerminates ==
  (ppc = "waitpid") ~>
    (/\ ppc = "closed"
     /\ cpc = "exited"
     /\ child_status = 0
     /\ released = Len(committed))

\* C3: nothing is handed to the sink before the ring has held size-1 items, the
\* wait for that is over once the first item has been taken, and every later
\* item is awaited with wait_if_buffer_empty
WarmUpFirst ==
  /\ starting => (sunk = <<>> /\ released = 0 /\ cpc = "run")
  /\ (cpc = "send" \/ sunk # <<>> \/ released > 0) => (was_full /\ ~starting)
  /\ waited_empty => ~starting

\* the consumer waited for a ring of more than two slots to fill, sent, and
\* later waited on the empty ring
WarmUpFirstWitness ==
  /\ size > 2
  /\ waited_fill
  /\ was_full
  /\ Len(sunk) > 1
  /\ waited_empty

\* C4: the ring is never found full and empty at once, the indexes give the
\* number of items committed and not released, and that number is at most size
FullEmptyExclusive ==
  /\ ~(circular_buffer_full /\ circular_buffer_empty)
  /\ Outstanding = Len(committed) - released
  /\ Len(committed) - released >= 0
  /\ Len(committed) - released <= size

\* the ring full again after the indexes have wrapped
FullEmptyExclusiveWitness ==
  /\ circular_buffer_full
  /\ ~circular_buffer_empty
  /\ released > 0
  /\ end < start
  /\ Len(committed) - released = size - 1

\* C5: a ring made with circ_buf_size = N takes N items, the producer waiting
\* only when N items are committed and not released
ProducerBlocksAtN ==
  (ppc \in {"write", "eof"} /\ circular_buffer_full) =>
    Len(committed) - released = size

\* C6: consumer steps leave end alone and producer steps leave start alone, and
\* an index that changes moves by one slot modulo size, with one item committed
\* (end) or released (start)
IndexOwnership ==
  [][/\ ChildNext => end' = end
     /\ ParentNext => start' = start
     /\ end' # end =>
          (end' = (end + 1) % size /\ Len(committed') = Len(committed) + 1)
     /\ start' # start =>
          (start' = (start + 1) % size /\ released' = released + 1)
     /\ Len(committed') # Len(committed) => end' # end
     /\ released' # released => start' # start]_vars

\* both indexes have gone round the ring
IndexOwnershipWitness ==
  /\ size > 2
  /\ released > size
  /\ Len(committed) > size
  /\ cpc = "exited"

\* C7: wait_if_buffer_full returns an error only after at least
\* PARENT_GIVE_UP_AFTER polls made in that call
GiveUpOnlyAfterLimit ==
  gave_up_after = 0 \/ gave_up_after >= PARENT_GIVE_UP_AFTER

BurstCap ==
  maxnowait >= 0 => nosleep_run <= maxnowait

\* C10: each committed item's time stamp is, as an unsigned 32-bit number, at
\* least the time stamp of the item committed before it
MonotoneTime ==
  \A i \in 1..(Len(committed) - 1) :
    LeqU32(committed[i].time, committed[i + 1].time)

\* C11: every byte array delivered to a sink, by a direct write or by the child,
\* begins with the sync byte
DeliveredStartsWithSync ==
  /\ \A i \in DOMAIN d_written : d_written[i].byte0 = TS_SYNC_BYTE
  /\ \A i \in DOMAIN sunk : sunk[i].sent => sunk[i].data[1].byte0 = TS_SYNC_BYTE

\* the place of a step of the close in the order C13 gives
CloseRank(step) ==
  CASE step = "flush" -> 1
    [] step = "eof" -> 2
    [] step = "child_exited" -> 3
    [] step = "sink_closed" -> 4
    [] step = "ring_released" -> 5

\* C13: the steps of closing a buffered writer come in the order flush, EOF
\* entry, exit of the child, closing of the sink, release of the ring
CloseInOrder ==
  dpc = "buffered" =>
    \A i, j \in DOMAIN close_log :
      i < j => CloseRank(close_log[i]) < CloseRank(close_log[j])

\* C14: the ring is released at most once, and only when the child has exited
RingReleasedAfterChildExit ==
  /\ Len(SelectSeq(close_log, LAMBDA step : step = "ring_released")) <= 1
  /\ ring_unmapped => cpc = "exited"

CommandsOfSpec ==
  {<<"q", "COMMAND_QUIT">>, <<"n", "COMMAND_NORMAL">>, <<"p", "COMMAND_PAUSE">>,
   <<"f", "COMMAND_FAST">>, <<"F", "COMMAND_FAST_FAST">>,
   <<"r", "COMMAND_REVERSE">>, <<"R", "COMMAND_FAST_REVERSE">>,
   <<">", "COMMAND_SKIP_FORWARD">>, <<"<", "COMMAND_SKIP_BACKWARD">>,
   <<"]", "COMMAND_SKIP_FORWARD_LOTS">>, <<"[", "COMMAND_SKIP_BACKWARD_LOTS">>,
   <<"0", "COMMAND_SELECT_FILE_0">>, <<"1", "COMMAND_SELECT_FILE_1">>,
   <<"2", "COMMAND_SELECT_FILE_2">>, <<"3", "COMMAND_SELECT_FILE_3">>,
   <<"4", "COMMAND_SELECT_FILE_4">>, <<"5", "COMMAND_SELECT_FILE_5">>,
   <<"6", "COMMAND_SELECT_FILE_6">>, <<"7", "COMMAND_SELECT_FILE_7">>,
   <<"8", "COMMAND_SELECT_FILE_8">>, <<"9", "COMMAND_SELECT_FILE_9">>}

PendingCommandKept ==
  [][command_changed =>
       /\ d_reads' = d_reads
       /\ cmd_pending' = cmd_pending
       /\ command' = command
       /\ ~command_changed' =>
            /\ dpc = "idle"
            /\ UNCHANGED <<dpc, dret, d_calls, d_written, d_log, count,
                           atomic_command, d_seen>>]_vars

\* one command was read, is still outstanding with more input waiting behind it,
\* and both calls of tswrite_write have written their packets
PendingCommandKeptWitness ==
  /\ command_changed
  /\ d_reads = 1
  /\ cmd_pending # <<>>
  /\ Head(cmd_pending).length = 1
  /\ Len(d_written) = MaxDirect
  /\ d_calls = MaxDirect

\* C17: tswrite_command_changed returns FALSE without command input and in the
\* middle of an atomic command, and command_changed otherwise, and the call
\* changes nothing of the writer
CommandChangedSeen ==
  [][/\ command_changed_seen(command_socket, atomic_command, command_changed)
          = IF command_socket = -1 \/ atomic_command THEN FALSE
                                                     ELSE command_changed
     /\ d_seen' # d_seen =>
          /\ d_seen' = (command_socket # -1 /\ ~atomic_command /\ command_changed)
          /\ UNCHANGED <<how, command_socket, command, command_changed,
                         atomic_command, dpc, dret, darg, cmd_pending, d_calls,
                         d_written, d_reads, d_log, count>>]_vars

\* the call has returned TRUE: a big skip was read and is outstanding, and the
\* caller is not in the middle of an atomic command
CommandChangedSeenWitness ==
  /\ d_seen
  /\ command_socket # -1
  /\ command = "COMMAND_SKIP_FORWARD_LOTS"
  /\ command_changed
  /\ ~atomic_command

\* C18: once the quit command has been given on the command input, a call of
\* tswrite_write returns EOF (-1), nothing more is written and no command is read
QuitEndsOutput ==
  [][(command_socket # -1 /\ command = "COMMAND_QUIT" /\ command_changed) =>
       /\ d_written' = d_written
       /\ d_reads' = d_reads
       /\ (dpc = "tcp" /\ dpc' = "idle") => dret' = -1]_vars

\* C19: tswrite_process_args returns 1 for -buffer 0 and for -prime 0, and
\* tswrite_start_buffering has built a ring and started a child only with a ring
\* size and a prime size of at least 1
NonsenseRejected ==
  /\ (apc # "args" /\ \E i \in DOMAIN argv : argv[i][2] = 0
        /\ \A j \in 1..(i - 1) : argv[j][2] > 0) => args_ret = 1
  /\ apc = "started" => (size >= 1 /\ prime_size >= 1)

\* the time stamp of record i of the input, and the order C20 speaks of: by time
\* stamp, records of equal time stamps in the order of arrival
TimeStampOf(i) ==
  m_all[i].stamp[1] * 16777216 + m_all[i].stamp[2] * 65536
    + m_all[i].stamp[3] * 256 + m_all[i].stamp[4]

LeavesBefore(i, j) ==
  \/ TimeStampOf(i) < TimeStampOf(j)
  \/ TimeStampOf(i) = TimeStampOf(j) /\ i < j

\* how many places record i stands behind its place in that order
LateBy(i) ==
  i - (1 + Cardinality({j \in DOMAIN m_all : LeavesBefore(j, i)}))

\* the records read so far, and those of them not yet written
RecordsRead == 1..(Len(m_all) - Len(m_input))
RecordsHeld == RecordsRead \ {m_output[k] : k \in DOMAIN m_output}

\* C20: the TS part of every record is written exactly once; between two reads
\* at most reorder_buffer_size records are held; a record is written during the
\* reading only when more are held, and then it is the held record that comes
\* first by time stamp and arrival; and when no record is more than
\* reorder_buffer_size places late, the output is in ascending order of time
\* stamps
M2tsReorder ==
  /\ [](/\ \A k, l \in DOMAIN m_output : k # l => m_output[k] # m_output[l]
        /\ \A k \in DOMAIN m_output : m_output[k] \in RecordsRead
        /\ mpc = "done" => Len(m_output) = Len(m_all)
        /\ mpc \in {"loop", "drain"} =>
             Cardinality(RecordsHeld) <= reorder_buffer_size
        /\ (mpc = "done" /\ \A i \in DOMAIN m_all : LateBy(i) <= reorder_buffer_size) =>
             \A k \in 1..(Len(m_output) - 1) :
               TimeStampOf(m_output[k]) <= TimeStampOf(m_output[k + 1]))
  /\ [][(mpc = "loop" /\ m_output' # m_output) =>
          LET held == RecordsHeld \cup {Len(m_all) - Len(m_input) + 1}
              written == m_output'[Len(m_output')]
          IN /\ m_output' = Append(m_output, written)
             /\ Cardinality(held) > reorder_buffer_size
             /\ written \in held
             /\ \A other \in held \ {written} : LeavesBefore(written, other)]_vars

\* a run to the end over MaxRecords records, some of them with equal time
\* stamps and some arriving after a record with a later time stamp, none more
\* than reorder_buffer_size places late
M2tsReorderWitness ==
  /\ mpc = "done"
  /\ m_ret = 0
  /\ Len(m_output) = MaxRecords
  /\ \E i, j \in DOMAIN m_all : i < j /\ TimeStampOf(i) > TimeStampOf(j)
  /\ \E i, j \in DOMAIN m_all : i < j /\ TimeStampOf(i) = TimeStampOf(j)
  /\ \A i \in DOMAIN m_all : LateBy(i) <= reorder_buffer_size
  /\ \E k \in DOMAIN m_output : m_output[k] # k

\* C21: extract_packets returns 1 whenever a write of a TS packet has failed,
\* in the main loop or in the loop over the remaining packets, and 0 only when
\* every record read was written
WriteFailureReturnsOne ==
  mpc = "done" =>
    /\ m_write_failed => m_ret = 1
    /\ m_ret = 0 => Len(m_output) = Len(m_all)

\* the drift of the item at the head of the ring when the consumer reads the
\* clock: item time - (time since the anchor + delta_start), modulo 2^32, signed
DriftAtRead == SubU32(item[start].time, AddU32(now' - our_start, delta_start))

\* a step of write_from_circular that goes on to send an item it did not handle
\* as a reset
TimedWithoutReset ==
  /\ cpc = "run" /\ cpc' = "send"
  /\ ~reset /\ ~item[start].discontinuity

\* the waitfor a send without a timing sleep is left with: 0, or the forced
\* wait of the burst cap
NoTimingSleep ==
  wf' = 0 \/ (maxnowait # -1 /\ sent_without_delay >= maxnowait /\ wf' = waitfor)

LateRecoveryAtItem ==
  [][(TimedWithoutReset /\ DriftAtRead < -200000) =>
       /\ our_start' = now'
       /\ delta_start' = item[start].time
       /\ NoTimingSleep]_vars

\* C24: with maxnowait = 3 and waitfor = 1000 and ten items all due at once,
\* a sleep of at least 1000 microseconds comes before the 4th, the 7th and the
\* 10th send and before no other send
BurstCapPositions ==
  [][(cpc = "send" /\ cpc' = "run" /\ maxnowait = 3 /\ waitfor = 1000 /\ Len(sunk) < 10) =>
       ((now' - now >= 1000) <=> (Len(sunk) + 1 \in {4, 7, 10}))]_vars

\* C25: whenever the waitfor the consumer ends up with is positive, the item
\* is sent only after a sleep of at least waitfor microseconds
SleepsAtLeastWaitfor ==
  [][(cpc = "send" /\ cpc' = "run" /\ wf > 0) => now' - now >= wf]_vars

\* C26: when write_socket_data returns 0 for a payload that begins with the
\* sync byte, the bytes handed to the successful sends are, put together, the
\* payload, each byte once and in order; and `start` and `left` stay within
\* 0..data_len all the way
SocketDelivery ==
  /\ (s_pc = "done" /\ s_ret = 0 /\ s_data[1] = TS_SYNC_BYTE) => s_handed = s_data
  /\ s_pc \in {"loop", "done"} => (s_start \in 0..Len(s_data) /\ s_left \in 0..Len(s_data))

\* the item at the head of the ring is not the EOF sentinel and does not begin
\* with the sync byte
InvalidAtHead ==
  /\ item[start].data[1].byte0 # 71
  /\ ~(item[start].length = 1 /\ item[start].data[1].byte0 = 1)

\* C27: when the item at the head of the ring begins with a byte other than
\* 0x47 and is not the EOF sentinel, the consumer sends none of it, goes on
\* running without an error status and gives the slot back; the items after
\* it are sent as any other item is
InvalidPacketDropped ==
  [][(cpc = "send" /\ cpc' = "run") =>
       /\ InvalidAtHead =>
            /\ Len(sunk') = Len(sunk) + 1
            /\ ~sunk'[Len(sunk')].sent
            /\ start' = (start + 1) % size
            /\ released' = released + 1
            /\ child_status' = 0
       /\ (~InvalidAtHead /\ \E i \in DOMAIN sunk : sunk[i].data[1].byte0 # 71) =>
            /\ sunk'[Len(sunk')].data = Payload(item[start])
            /\ sunk'[Len(sunk')].sent = (sunk'[Len(sunk')].res = "ok")
            /\ start' = (start + 1) % size]_vars

\* an item that did not begin with the sync byte was dropped and the item
\* after it went out
InvalidPacketDroppedWitness ==
  \E i \in DOMAIN sunk :
    /\ i < Len(sunk)
    /\ sunk[i].data[1].byte0 # 71
    /\ sunk[i].res = "ok"
    /\ ~sunk[i].sent
    /\ sunk[i + 1].data[1].byte0 = 71
    /\ sunk[i + 1].sent

\* an item as the EOF entry is laid down: one byte long, that byte being 1
IsSentinel(it) == it.length = 1 /\ it.data[1].byte0 = 1

\* C28: writing EOF first commits the open item when it holds a packet, and
\* then commits one item of length 1 whose first byte is 1; that entry is the
\* last item ever committed; every data item is at least 188 bytes long, so
\* that none is taken for the EOF entry; and the consumer, on meeting the EOF
\* entry, gives its slot back and hands nothing to the sink
EofSentinel ==
  /\ [](/\ ppc \in {"eof", "waitpid"} => ~started
        /\ \A i \in DOMAIN sunk : ~IsSentinel(sunk[i])
        /\ \A i \in DOMAIN committed :
             /\ committed[i].eof => (i = Len(committed) /\ IsSentinel(committed[i]))
             /\ ~committed[i].eof => (committed[i].length >= 188 /\ ~IsSentinel(committed[i])))
  /\ [][/\ (ppc = "idle" /\ ppc' = "eof" /\ started /\ item[which].length > 0) =>
             /\ Len(committed') = Len(committed) + 1
             /\ committed'[Len(committed')].data = Payload(item[which])
             /\ committed'[Len(committed')].length = item[which].length
             /\ ~committed'[Len(committed')].eof
        /\ (ppc = "eof" /\ ppc' = "waitpid") =>
             /\ Len(committed') = Len(committed) + 1
             /\ committed'[Len(committed')].eof
             /\ IsSentinel(item'[end'])
        /\ (cpc = "run" /\ cpc' = "exited") =>
             /\ IsSentinel(item[start])
             /\ committed[released + 1].eof
             /\ sunk' = sunk
             /\ start' = (start + 1) % size
             /\ released' = released + 1
        /\ (cpc = "run" /\ cpc' = "send") => ~IsSentinel(item[start])]_vars

\* an item left open with one packet of two was committed at the close, the
\* EOF entry after it, and the consumer has met the EOF entry and exited
EofSentinelWitness ==
  /\ cpc = "exited"
  /\ child_status = 0
  /\ Len(close_log) >= 2
  /\ close_log[1] = "flush"
  /\ close_log[2] = "eof"
  /\ Len(committed) >= 3
  /\ committed[Len(committed) - 1].length = 188
  /\ TS_in_item = 2
  /\ released = Len(committed)

\* C29: an open item is 188 bytes long for each packet put into it and holds
\* between 1 and packets_per_item packets; an item is committed by a write
\* exactly when it holds packets_per_item packets and by the close when it
\* holds fewer, so that every committed data item but the last before the EOF
\* entry is packets_per_item * 188 bytes long; and the packets of an item lie
\* in it in the order they were written
Accumulation ==
  /\ [](/\ started =>
             /\ item[which].length = 188 * num_packets
             /\ num_packets >= 1
             /\ num_packets < TS_in_item
             /\ \A k \in 1..(num_packets - 1) :
                  item[which].data[k].body < item[which].data[k + 1].body
        /\ \A i \in DOMAIN committed :
             ~committed[i].eof =>
               /\ committed[i].length = 188 * Len(committed[i].data)
               /\ Len(committed[i].data) \in 1..TS_in_item
               /\ \A k \in 1..(Len(committed[i].data) - 1) :
                    committed[i].data[k].body < committed[i].data[k + 1].body
               /\ committed[i].length # TS_in_item * 188 =>
                    (i = Len(committed) \/ (i = Len(committed) - 1 /\ committed[i + 1].eof)))
  /\ [][(Len(committed') > Len(committed) /\ ~committed'[Len(committed')].eof) =>
          IF ppc' = "eof"
            THEN /\ ppc = "idle"
                 /\ committed'[Len(committed')].length < TS_in_item * 188
                 /\ committed'[Len(committed')].data = [k \in 1..num_packets |-> item[which].data[k]]
            ELSE /\ ppc \in {"idle", "write"}
                 /\ committed'[Len(committed')].length = TS_in_item * 188
                 /\ \A k \in 1..num_packets :
                      committed'[Len(committed')].data[k] = item[which].data[k]]_vars

\* a full item of two packets was committed by a write, an item of one packet
\* by the close, and the EOF entry after them
AccumulationWitness ==
  /\ TS_in_item = 2
  /\ Len(committed) = 3
  /\ committed[1].length = 376
  /\ committed[2].length = 188
  /\ committed[3].eof
  /\ committed[1].data[1].body = 1
  /\ committed[1].data[2].body = 2

\* the packet of the item just stamped whose PCR was used: the first one with
\* a PCR
PcrPacketStamped ==
  stamped_item'[CHOOSE i \in DOMAIN stamped_item' :
                  stamped_item'[i].got_pcr /\ \A j \in 1..(i - 1) : ~stamped_item'[j].got_pcr]

\* the item just stamped carries the second or a later PCR of a sequence
\* without rollback, after a PCR that is smaller
LaterPcrStamped ==
  /\ items_stamped' = items_stamped + 1
  /\ \E i \in DOMAIN stamped_item' : stamped_item'[i].got_pcr
  /\ had_first_pcr
  /\ PcrPacketStamped.pcr > last_pcr

\* C30: when an item carries the second or a later PCR of a sequence without
\* rollback, the rate becomes delta_bytes * 27000000 / delta_pcr bytes per
\* second, delta_bytes being 188 times the difference of the indexes of the
\* two PCR packets; and when the PCRs lie 3 items apart with
\* delta_pcr = 27000000 * (3 * K * 188) / R, the rate is R within 1%
PcrRateEstimate ==
  [][LaterPcrStamped =>
       LET delta_pcr == PcrPacketStamped.pcr - last_pcr
           delta_index == PcrPacketStamped.index - last_pcr_index
       IN /\ pcr_rate' = MulDiv(27000000, 188 * delta_index, delta_pcr)
          /\ (/\ delta_index = 3 * TS_in_item
              /\ delta_pcr = MulDiv(27000000, 3 * TS_in_item * 188, stream_rate)) =>
               /\ 100 * (pcr_rate' - stream_rate) <= stream_rate
               /\ 100 * (stream_rate - pcr_rate') <= stream_rate]_vars

\* the first item and the fourth carried a PCR in their first packet, the
\* second PCR as far after the first as three items take at the rate of the
\* stream, and the rate has been computed from the two
PcrRateEstimateWitness ==
  /\ pcr_pc = "run"
  /\ items_stamped = 4
  /\ had_second_pcr
  /\ last_pcr_index = 3 * TS_in_item
  /\ last_pcr = FirstPcr + MulDiv(27000000, 3 * TS_in_item * 188, stream_rate)
  /\ pcr_rate # rate
  /\ 100 * (pcr_rate - stream_rate) <= stream_rate
  /\ 100 * (stream_rate - pcr_rate) <= stream_rate

\* the item just stamped carries the second PCR of the stream, three items
\* after the first and as far after it as three items take at the rate of the
\* stream
SecondPcrOfLockOn ==
  /\ LaterPcrStamped
  /\ ~had_second_pcr
  /\ PcrPacketStamped.index - last_pcr_index = 3 * TS_in_item
  /\ PcrPacketStamped.pcr - last_pcr = MulDiv(27000000, 3 * TS_in_item * 188, stream_rate)

\* C31: with the default initial byte rate and PCRs every 3 items that stand
\* for the rate R, once the item with the second PCR has been stamped and the
\* initial prime replaced, the time of the pool is positive and is the bytes
\* of the pool * 1000000 / R within 0.5%
PoolAfterLockOn ==
  [][SecondPcrOfLockOn =>
       LET expected == MulDiv(available_bytes', 1000000, stream_rate)
       IN /\ available_time' > 0
          /\ 200 * (available_time' - expected) <= expected
          /\ 200 * (expected - available_time') <= expected]_vars

\* the item just stamped carries a PCR smaller than the PCR before it
RollbackStamped ==
  /\ items_stamped' = items_stamped + 1
  /\ \E i \in DOMAIN stamped_item' : stamped_item'[i].got_pcr
  /\ PcrPacketStamped.pcr < last_pcr

\* C32: an item whose PCR is smaller than the PCR before it leaves the rate
\* as it was, clears had_first_pcr and had_second_pcr and empties the pool,
\* and the item after it primes the pool anew; and at the close of every
\* item the bytes and the time of the pool are positive when the step is
\* computed, and the step added to the time stamp is not negative
RollbackReprimes ==
  [][items_stamped' = items_stamped + 1 =>
       /\ RollbackStamped =>
            /\ pcr_rate' = pcr_rate
            /\ ~had_first_pcr' /\ ~had_second_pcr'
            /\ available_bytes' = 0 /\ available_time' = 0
       /\ (items_stamped > 0 /\ available_bytes = 0 /\ available_time = 0) =>
            pool_bytes' = 188 * TS_in_item * prime_size
       /\ pool_bytes' > 0
       /\ pool_time' > 0
       /\ SubU32(item_time', last_timestamp) >= 0]_vars

\* C33: the PCR used when an item is stamped is that of the first packet with
\* a PCR among the packets of that very item; an item without such a packet,
\* the EOF entry included, is stamped as having no PCR: the last PCR, its
\* index and the lock-on flags stay, and the rate is not recomputed
PcrOfThisItem ==
  [][items_stamped' = items_stamped + 1 =>
       IF \E i \in DOMAIN stamped_item' : stamped_item'[i].got_pcr
         THEN /\ last_pcr' = PcrPacketStamped.pcr
              /\ last_pcr_index' = PcrPacketStamped.index
         ELSE /\ UNCHANGED <<last_pcr, last_pcr_index, had_first_pcr, had_second_pcr>>
              /\ pcr_rate' = IF pcr_rate < 1 THEN rate ELSE pcr_rate]_vars

\* the EOF entry has been stamped while an entry of writer->packet still had
\* the PCR flag of an earlier item
PcrOfThisItemWitness ==
  /\ pcr_pc = "closed"
  /\ stamped_item = <<>>
  /\ had_first_pcr
  /\ \E i \in DOMAIN packet : packet[i].got_pcr

\* the channel has delivered 'q' after the big skip: it has been read, or it
\* is the next byte to read
QuitDelivered ==
  \/ command = "COMMAND_QUIT"
  \/ cmd_pending # <<>> /\ Head(cmd_pending) = ReadByte("q")

\* C34: from the read of ']' or '[' until the atomic guard is released a call
\* of tswrite_command_changed returns FALSE, and after the release, 'q' having
\* been delivered after the big skip, it returns TRUE with command = quit
AtomicBigSkip ==
  /\ (dpc = "idle" /\ command_socket # -1 /\ big_skip = "read") =>
       ~command_changed_seen(command_socket, atomic_command, command_changed)
  /\ (dpc = "idle" /\ command_socket # -1 /\ big_skip = "released"
        /\ ~atomic_command /\ QuitDelivered) =>
       /\ command_changed_seen(command_socket, atomic_command, command_changed)
       /\ command = "COMMAND_QUIT"

\* the slots of the items committed and not yet released: from start on, as
\* many as the history counts
UnreleasedSlots ==
  {(start + k) % size : k \in 0..(Len(committed) - released - 1)}

\* C35: while the producer has an item open, the slot it fills is
\* (end + 1) mod size and is none of the committed, unreleased slots
\* start..end, and a step of the producer writes no slot but that one
SlotExclusivity ==
  /\ [](started =>
          /\ which = (end + 1) % size
          /\ which \notin UnreleasedSlots
          /\ UnreleasedSlots = {(start + k) % size : k \in 0..(Outstanding - 1)})
  /\ [][\A i \in DOMAIN item :
          (item'[i] # item[i] /\ start' = start) =>
            (i = which /\ i \notin UnreleasedSlots)]_vars

\* the producer has an item open while the ring holds as many committed,
\* unreleased items as it can then hold
SlotExclusivityWitness ==
  /\ started
  /\ num_packets > 0
  /\ Cardinality(UnreleasedSlots) = size - 2
  /\ size > 2

\* C36: for every ring size accepted, one slot included, start and end stay
\* within 0..size-1, the producer is held back (the ring tests full) while the
\* slot it would write holds a committed item not yet released, and no more
\* items are committed and unreleased than the ring has slots for, so that
\* none is overwritten before its release
RingSafeForAnySize ==
  ~ring_unmapped =>
    /\ start \in 0..(size - 1)
    /\ end \in 0..(size - 1)
    /\ (end + 1) % size \in UnreleasedSlots => circular_buffer_full
    /\ Cardinality(UnreleasedSlots) = Len(committed) - released

\* C37: with a burst cap (maxnowait not -1), every item that write_from_circular
\* goes on to send without a sleep has been counted in sent_without_delay, under
\* -perturb as well, and so no more than maxnowait items in a row are sent
\* without a sleep
BurstGuardCountsEverySend ==
  /\ [][(cpc = "run" /\ cpc' = "send" /\ maxnowait # -1 /\ wf' <= 0) =>
          sent_without_delay' = sent_without_delay + 1]_vars
  /\ [](maxnowait # -1 => nosleep_run <= maxnowait)

\* a step of write_from_circular that moves the anchor of the consumer's
\* timeline
ReAnchored ==
  /\ cpc = "run" /\ cpc' = "send"
  /\ our_start' # our_start \/ delta_start' # delta_start

\* the item last taken was found late by the late-reset limit or more
FoundLate ==
  SubU32(this_packet_time, AddU32(now - our_start, delta_start)) <= -LATE_RESET_LIMIT

RateRecomputed ==
  /\ items_stamped' = items_stamped + 1
  /\ had_first_pcr
  /\ \E i \in DOMAIN stamped_item' : stamped_item'[i].got_pcr
  /\ PcrPacketStamped.pcr >= last_pcr

\* C39: whenever the rate is recomputed from two PCRs, delta_pcr and
\* delta_bytes are both positive and the rate that results is finite and
\* positive
RateFromPositiveDeltas ==
  [][RateRecomputed =>
       /\ PcrPacketStamped.pcr - last_pcr > 0
       /\ (PcrPacketStamped.index - last_pcr_index) * TS_PACKET_SIZE > 0
       /\ pcr_rate' > 0
       /\ pcr_rate' < PlusInfinity]_vars

\* the records of the reorder list, from the record p on by `next`, n at most
RECURSIVE ChainFrom(_, _)
ChainFrom(p, n) ==
  IF p = NULL \/ n = 0 THEN <<>>
  ELSE <<p>> \o ChainFrom(m_nodes[p].next, n - 1)

\* C40: for every reorder size accepted, 0 included, extract_packets keeps its
\* list well formed: a head written out leaves a head behind it (the run does
\* not end in the write through the null head), and between two reads the
\* list from the head has reorder_buffer_entries records, ends at the tail and
\* is linked back by `prev`
ReorderListWellFormed ==
  /\ mpc # "killed"
  /\ mpc = "loop" =>
       LET chain == ChainFrom(reorder_buffer_head, Len(m_nodes) + 1)
       IN /\ Len(chain) = reorder_buffer_entries
          /\ chain = <<>> => reorder_buffer_tail = NULL
          /\ chain # <<>> =>
               /\ chain[Len(chain)] = reorder_buffer_tail
               /\ m_nodes[chain[1]].prev = NULL
               /\ \A k \in 2..Len(chain) : m_nodes[chain[k]].prev = chain[k - 1]
               /\ \A k, l \in DOMAIN chain : k # l => chain[k] # chain[l]

====
